---- MODULE Spec2Model ----
(***************************************************************************)
(* Trace (Bethel-nz/trace): the bounded agent loop (InvokeAI), the process *)
(* runner (RunProcessCmd / WaitForProcessOutput) and the bubbletea state   *)
(* machine (Model.Update) that interleaves them.                           *)
(*                                                                         *)
(* Text is a sequence of one-character strings; a message content is a     *)
(* sequence of strings (its parts, in order).                              *)
(***************************************************************************)
EXTENDS Integers, Sequences, FiniteSets, TLC

VARIABLES
  History,          \* m.History
  State,            \* m.State
  PendingQueue,     \* m.PendingQueue
  ShowSidebar,      \* m.ShowSidebar
  ProcessOutput,    \* m.ProcessOutput (sequence of lines)
  Input,            \* m.Input.Value()
  ShowAutocomplete, \* m.ShowAutocomplete
  AutocompleteIdx,  \* m.AutocompleteIdx
  AutocompleteList, \* m.AutocompleteList
  quit,             \* tea.Quit was returned
  providerModel,    \* os.Getenv("PROVIDER_MODEL") != ""
  Files,            \* m.Files, the project's file list
  fileContent,      \* the content of the file edit_file is asked to edit
  editResult,       \* the last EditFile call: its input and what it returned
  ai,               \* InvokeAI commands in flight (goroutines)
  invStarted,       \* number of InvokeAI commands created so far
  nextCallId,       \* the endpoint's tool-call id generator
  aiComplete,       \* AiCompleteMsg commands in flight
  resize,           \* WindowSizeMsg commands in flight (resizeCmd)
  procs,            \* RunProcessCmd commands in flight
  procStarted,      \* number of RunProcessCmd commands created so far
  consumers,        \* WaitForProcessOutput commands blocked on <-sub
  outMsgs,          \* ProcessOutputMsg received from the channel, not yet handled
  requests,         \* CreateChatCompletion calls made so far
  submits           \* inputs submitted so far

vars == <<History, State, PendingQueue, ShowSidebar, ProcessOutput, Input,
          ShowAutocomplete, AutocompleteIdx, AutocompleteList, quit,
          providerModel, Files, fileContent, editResult, ai, invStarted,
          nextCallId, aiComplete, resize, procs, procStarted, consumers,
          outMsgs, requests, submits>>

modelVars == <<History, State, PendingQueue, ShowSidebar, ProcessOutput, Input,
               ShowAutocomplete, AutocompleteIdx, AutocompleteList, quit>>

\* what no handler and no command of the session changes
envVars == <<providerModel, Files, fileContent, editResult>>

cmdVars == <<ai, invStarted, nextCallId, aiComplete, resize, procs,
             procStarted, consumers, outMsgs, requests>>

-----------------------------------------------------------------------------
(* Program constants *)

\* for iteration := 0; iteration < 10; iteration++
MaxIterations == 10

\* if len(m.AutocompleteList) >= 10 { break }
AutocompleteLimit == 10

StateIdle == "Idle"
StateThinking == "Thinking"

-----------------------------------------------------------------------------
(* Bounds of the model *)

\* endpoint requests the session as a whole may make
MaxRequests == 2
\* submissions (enter with non-empty input) in a session
MaxSubmits == 2
\* process runs in a session
MaxProcs == 1
\* lines a process writes to its standard output
MaxLines == 1
\* replies of one lone invocation that carry two tool calls or a failing tool
MaxVaried == 1

-----------------------------------------------------------------------------
(* strings *)

\* unicode.IsSpace, restricted to the characters of the model
IsSpace(c) == c = " "

\* strings.Fields: the maximal runs of non-space characters, in order
RECURSIVE FieldsFrom(_, _, _)
FieldsFrom(s, i, cur) ==
  IF i > Len(s)
    THEN IF cur = <<>> THEN <<>> ELSE <<cur>>
    ELSE IF IsSpace(s[i])
      THEN IF cur = <<>> THEN FieldsFrom(s, i + 1, <<>>)
                         ELSE <<cur>> \o FieldsFrom(s, i + 1, <<>>)
      ELSE FieldsFrom(s, i + 1, Append(cur, s[i]))

Fields(s) == FieldsFrom(s, 1, <<>>)

\* strings.HasPrefix(s, "@")
HasAtPrefix(s) == Len(s) >= 1 /\ s[1] = "@"

\* strings.TrimPrefix(s, "@")
TrimAtPrefix(s) == IF HasAtPrefix(s) THEN SubSeq(s, 2, Len(s)) ELSE s

\* a plausible slip: strings.ContainsAny, true when s holds any one character
\* of sub
ContainsAny(s, sub) ==
  \E i \in 1..Len(s) : \E j \in 1..Len(sub) : s[i] = sub[j]

\* strings.Contains(s, sub)
Contains(s, sub) ==
  \E i \in 1..(Len(s) + 1) :
    /\ i + Len(sub) - 1 <= Len(s)
    /\ SubSeq(s, i, i + Len(sub) - 1) = sub

\* strings.Join(words, sep)
RECURSIVE Join(_, _)
Join(words, sep) ==
  IF words = <<>> THEN <<>>
  ELSE IF Len(words) = 1 THEN words[1]
  ELSE words[1] \o sep \o Join(Tail(words), sep)

\* the elements of a sequence
Range(s) == {s[i] : i \in 1..Len(s)}

\* a is a prefix of b
IsPrefix(a, b) == Len(a) <= Len(b) /\ SubSeq(b, 1, Len(a)) = a

-----------------------------------------------------------------------------
(* messages *)

RoleSystem == "system"
RoleUser == "user"
RoleAssistant == "assistant"
RoleTool == "tool"

\* openai.ChatCompletionMessage{Role, Content, ToolCalls, ToolCallID}
Msg(role, content, calls, id) ==
  [Role |-> role, Content |-> content, ToolCalls |-> calls, ToolCallID |-> id]

\* a message without tool calls and without a tool call id
Plain(role, content) == Msg(role, content, <<>>, 0)

\* openai.ToolCall{ID, Function{Name, Arguments}}
Call(id, name, args) == [ID |-> id, Name |-> name, Arguments |-> args]

-----------------------------------------------------------------------------
(* pkg/agent: the tool registry *)

\* the names of GetAllToolDefinitions()
ToolNames == {"read_file", "list_files", "run_command", "init_project",
              "write_file", "edit_file", "manage_window"}

\* json.Unmarshal of the argument payload into the tool's input struct fails
Malformed(args) == args = "malformed"

\* tool.Function(argsJSON): <<result, err>>, err = <<>> standing for nil
ToolFunction(name, args) ==
  IF Malformed(args) THEN <<<<>>, <<"invalid character">>>>
  ELSE IF name = "manage_window"
    THEN IF args /= "open" /\ args /= "close"
           THEN <<<<>>, <<"invalid action: ", args>>>>
           ELSE <<<<"Window action '", args, "' triggered for target">>, <<>>>>
  ELSE IF name = "run_command"
    THEN <<<<"output of ", args>>, <<>>>>
  ELSE IF args = "missing"
    THEN <<<<>>, <<"no such file or directory">>>>
    ELSE <<<<name, " done">>, <<>>>>

\* ExecuteToolByName(name, argsJSON)
ExecuteToolByName(name, args) ==
  IF name \in ToolNames
    THEN ToolFunction(name, args)
    ELSE <<<<>>, <<"unknown tool: ", name>>>>

\* the path of the file of fileContent, a path the tool refuses, and a path
\* where no file is
FilePath == "a.go"
EnvPath == ".env"
MissingPath == "missing.go"

\* EditFileInput and the (string, error) EditFile returns
Edit(path, searchText, replaceText, out, err) ==
  [Path |-> path, SearchText |-> searchText, ReplaceText |-> replaceText,
   out |-> out, err |-> err]

\* no EditFile call was made yet
NoEdit == Edit("", <<>>, <<>>, <<>>, <<>>)

\* strings.Index(s, sub), counted from 1; 0 when sub is not in s
Index(s, sub) ==
  IF Contains(s, sub)
    THEN CHOOSE i \in 1..(Len(s) + 1) :
           /\ i + Len(sub) - 1 <= Len(s)
           /\ SubSeq(s, i, i + Len(sub) - 1) = sub
           /\ \A j \in 1..(i - 1) : SubSeq(s, j, j + Len(sub) - 1) /= sub
    ELSE 0

\* a plausible slip: strings.ReplaceAll, for a non-empty old
RECURSIVE ReplaceEvery(_, _, _)
ReplaceEvery(s, old, new) ==
  IF old = <<>> \/ Index(s, old) = 0 THEN s
  ELSE SubSeq(s, 1, Index(s, old) - 1) \o new
         \o ReplaceEvery(SubSeq(s, Index(s, old) + Len(old), Len(s)), old, new)

\* strings.Replace(s, old, new, 1)
ReplaceFirst(s, old, new) ==
  IF Index(s, old) = 0 THEN s
  ELSE SubSeq(s, 1, Index(s, old) - 1) \o new
         \o SubSeq(s, Index(s, old) + Len(old), Len(s))

\* EditFile (part_001 lines 428-460) on a well-formed input: the new content
\* of the file and what the call returns; writable tells whether
\* os.WriteFile succeeds
EditFile(path, searchText, replaceText, content, writable) ==
  IF path = EnvPath
    THEN [content |-> content,
          out |-> <<>>, err |-> <<"access denied: .env files are protected">>]
  ELSE IF path /= FilePath
    THEN [content |-> content,
          out |-> <<>>, err |-> <<"failed to read file: ", "no such file">>]
  ELSE IF ~Contains(content, searchText)
    THEN [content |-> content,
          out |-> <<>>,
          err |-> <<"search block not found in ", path,
                    ". Ensure exact match (including whitespace).">>]
  ELSE IF ~writable
    THEN [content |-> content,
          out |-> <<>>, err |-> <<"failed to write file: ", "permission denied">>]
  ELSE [content |-> ReplaceFirst(content, searchText, replaceText),
        out |-> <<"Successfully edited ", path>>, err |-> <<>>]

-----------------------------------------------------------------------------
(* pkg/ui/commands.go: InvokeAI *)

\* what an InvokeAI command returns (a tea.Msg); "none" while it still runs
Result(type, arg, id, history, content) ==
  [type |-> type, Arg |-> arg, ToolCallID |-> id, History |-> history,
   Content |-> content]

NoResult == Result("none", "", 0, <<>>, <<>>)
\* a plausible slip: the error is logged and nothing is returned
ErrMsgIgnored(text) == NoResult
ErrMsg(text) == Result("ErrMsg", "", 0, <<>>, text)
AiResponseMsg(content, history) == Result("AiResponseMsg", "", 0, history, content)
RunCommandMsg(command, id, history) == Result("RunCommandMsg", command, id, history, <<>>)
WindowControlMsg(action, id, history) == Result("WindowControlMsg", action, id, history, <<>>)

\* a plausible slip: the error is logged and the result left as returned
ToolResultMsgNoError(call) ==
  Msg(RoleTool, ExecuteToolByName(call.Name, call.Arguments)[1], <<>>, call.ID)

\* the tool message appended after a synchronous execution (lines 177-191)
ToolResultMsg(call) ==
  LET r == ExecuteToolByName(call.Name, call.Arguments)
      result == IF r[2] /= <<>> THEN <<"Error executing tool: ">> \o r[2] ELSE r[1]
  IN Msg(RoleTool, result, <<>>, call.ID)

\* the loop over choice.Message.ToolCalls (lines 140-192), from call i on:
\* the messages, the ids handed to ExecuteToolByName (executed) and the
\* message returned from inside the loop, if any
\* a plausible slip: the message carries the history as it was before the
\* last append
SuspensionStale(toolCall, messages) ==
  IF toolCall.Name = "run_command"
    THEN RunCommandMsg(toolCall.Arguments, toolCall.ID,
                       SubSeq(messages, 1, Len(messages) - 1))
    ELSE WindowControlMsg(toolCall.Arguments, toolCall.ID,
                          SubSeq(messages, 1, Len(messages) - 1))

\* the message returned for an out-of-band call (lines 151-156, 167-172)
Suspension(toolCall, messages) ==
  IF toolCall.Name = "run_command"
    THEN RunCommandMsg(toolCall.Arguments, toolCall.ID, messages)
    ELSE WindowControlMsg(toolCall.Arguments, toolCall.ID, messages)

\* a plausible slip: the name alone decides, the payload is not looked at
OutOfBandByName(toolCall) == toolCall.Name \in {"run_command", "manage_window"}

\* the call is one InvokeAI returns on: run_command or manage_window with
\* arguments that unmarshal (lines 143, 149, 161, 166)
OutOfBand(toolCall) ==
  /\ toolCall.Name \in {"run_command", "manage_window"}
  /\ ~Malformed(toolCall.Arguments)

RECURSIVE ProcessCalls(_, _, _, _)
ProcessCalls(messages, calls, i, executed) ==
  IF i > Len(calls)
    THEN [messages |-> messages, executed |-> executed, ret |-> NoResult]
  ELSE LET toolCall == calls[i] IN
    IF OutOfBand(toolCall)
      THEN [messages |-> messages, executed |-> executed,
            ret |-> Suspension(toolCall, messages)]
    ELSE ProcessCalls(Append(messages, ToolResultMsg(toolCall)), calls, i + 1,
                      Append(executed, toolCall.ID))

\* a new InvokeAI command: m is captured by value, so the loop starts from
\* the history of the moment InvokeAI() is called (lines 89-99). replies are
\* the endpoint's answers to its requests so far, sent the messages of its
\* last request
NewInvocation(n, history) ==
  [n |-> n, messages |-> history, iteration |-> 0, replies |-> <<>>,
   sent |-> <<>>, executed |-> <<>>, result |-> NoResult]

\* the reply's tool calls with the ids the endpoint gave them
WithIds(calls, first) ==
  [i \in 1..Len(calls) |-> Call(first + i - 1, calls[i].Name, calls[i].Arguments)]

\* a plausible slip: iteration <= 10
LoopContinuesOffByOne(iteration) == iteration + 1 <= MaxIterations

\* the loop's condition after the pass of this iteration (line 104)
LoopContinues(iteration) == iteration + 1 < MaxIterations

\* the assistant message of a reply with tool calls (lines 132-136)
AssistantMsg(content, calls) == Msg(RoleAssistant, content, calls, 0)

\* a plausible slip: the final message is built without the reply's content
FinalMsgEmpty(content) == Plain(RoleAssistant, <<>>)

\* the assistant message of a final reply (lines 203-206)
FinalMsg(content) == Plain(RoleAssistant, content)

\* one pass of the loop body (lines 104-212) on reply, and the loop's exit
\* (lines 214-215) when that was the last pass
LoopBody(inv, reply, first) ==
  LET req == [inv EXCEPT !.replies = Append(@, reply), !.sent = inv.messages] IN
  IF reply.kind = "error"
    THEN [req EXCEPT !.result = ErrMsg(<<"API error: ", "endpoint">>)]
  ELSE IF reply.kind = "nochoices"
    THEN [req EXCEPT !.result = ErrMsg(<<"no response from model">>)]
  ELSE IF Len(reply.calls) > 0
    THEN LET calls == WithIds(reply.calls, first)
             assistantMsg == AssistantMsg(reply.content, calls)
             p == ProcessCalls(Append(inv.messages, assistantMsg), calls, 1,
                               inv.executed)
         IN IF p.ret.type /= "none"
              THEN [req EXCEPT !.messages = p.messages, !.executed = p.executed,
                               !.result = p.ret]
              ELSE [req EXCEPT !.messages = p.messages, !.executed = p.executed,
                               !.iteration = @ + 1,
                               !.result = IF LoopContinues(inv.iteration)
                                            THEN NoResult
                                            ELSE ErrMsg(<<"max iterations reached - possible infinite loop">>)]
  ELSE LET messages == Append(inv.messages, FinalMsg(reply.content))
       IN [req EXCEPT !.messages = messages,
                      !.result = AiResponseMsg(reply.content, messages)]

\* the command's next step: the PROVIDER_MODEL check (lines 91-95) or one pass
InvokeStep(inv, reply, first) ==
  IF ~providerModel
    THEN [inv EXCEPT !.result = ErrMsg(<<"PROVIDER_MODEL not set in .env">>)]
    ELSE LoopBody(inv, reply, first)

-----------------------------------------------------------------------------
(* pkg/ui/model.go, update.go: the model and its helpers *)

\* the project's file list (main.go: listProjectFiles) of the session
ProjectFiles == << <<"a", ".", "g", "o">>, <<"b", ".", "g", "o">> >>

\* the file edit_file is asked to edit, as the session finds it
ProjectFile == <<"a", "b", "a", "b">>

\* the system prompt and the greeting InitialModel puts in the history
initialHistory ==
  << Plain(RoleSystem, <<"You are Trace">>),
     Plain(RoleUser, <<"Hello! Please introduce yourself and your tools briefly.">>) >>

\* a plausible slip: the known paths are scanned instead of the words, so the
\* paths come in the order of the file list, each once
ReferencedFilesInListOrder(words) ==
  LET tagged(f) == \E i \in 1..Len(words) : words[i] = <<"@">> \o f
  IN SelectSeq(Files, tagged)

\* the known files the @tokens of words name, in token order (lines 392-404)
RECURSIVE ReferencedFiles(_)
ReferencedFiles(words) ==
  IF words = <<>> THEN <<>>
  ELSE LET path == TrimAtPrefix(Head(words))
       IN (IF HasAtPrefix(Head(words)) /\ path \in Range(Files)
             THEN <<path>> ELSE <<>>) \o ReferencedFiles(Tail(words))

\* Model.resolveFileTags
resolveFileTags(input) ==
  LET referencedFiles == ReferencedFiles(Fields(input))
  IN IF Len(referencedFiles) > 0
       THEN input \o <<"\n", "\n", "[User has referenced these files: ">>
                  \o Join(referencedFiles, <<",", " ">>)
                  \o <<". Use the read_file tool to view their contents.]">>
       ELSE input

\* the first paths of Files, from index i on, that contain search, at most
\* AutocompleteLimit of them (lines 299-307)
RECURSIVE MatchesUncapped(_, _, _)
\* a plausible slip: the break of lines 303-305 left out
MatchesUncapped(search, i, acc) ==
  IF i > Len(Files) THEN acc
  ELSE IF search = <<>> \/ Contains(Files[i], search)
    THEN MatchesUncapped(search, i + 1, Append(acc, Files[i]))
    ELSE MatchesUncapped(search, i + 1, acc)

RECURSIVE Matches(_, _, _)
Matches(search, i, acc) ==
  IF i > Len(Files) \/ Len(acc) >= AutocompleteLimit THEN acc
  ELSE IF search = <<>> \/ Contains(Files[i], search)
    THEN Matches(search, i + 1, Append(acc, Files[i]))
    ELSE Matches(search, i + 1, acc)

\* a plausible slip: a complete tag is not recognised
ExactMatchNever(search) == FALSE

\* the search text is one of the known paths (lines 287-293)
ExactMatch(search) == search \in Range(Files)

\* a plausible slip: the index is kept whatever the length of the new list
ClampedKept(idx, list) == idx

\* the selected index, reset when the new list is too short for it
\* (lines 313-315)
Clamped(idx, list) == IF idx >= Len(list) THEN 0 ELSE idx

\* the autocomplete check that ends Update (lines 278-322): the new
\* ShowAutocomplete, AutocompleteIdx and AutocompleteList
Autocomplete(inputVal, idx, list) ==
  LET words == Fields(inputVal) IN
  IF Len(words) > 0
    THEN LET lastWord == words[Len(words)] IN
      IF HasAtPrefix(lastWord)
        THEN LET search == TrimAtPrefix(lastWord) IN
          IF ExactMatch(search)
            THEN [show |-> FALSE, idx |-> idx, list |-> list]
            ELSE LET l == Matches(search, 1, <<>>) IN
              IF Len(l) > 0
                THEN [show |-> TRUE, idx |-> Clamped(idx, l), list |-> l]
                ELSE [show |-> FALSE, idx |-> idx, list |-> l]
        ELSE [show |-> FALSE, idx |-> idx, list |-> list]
    ELSE [show |-> FALSE, idx |-> idx, list |-> list]

\* the end of Update (lines 276-333) with the input's value after
\* m.Input.Update(msg)
UpdateTail(inputVal) ==
  LET a == Autocomplete(inputVal, AutocompleteIdx, AutocompleteList) IN
  /\ Input' = inputVal
  /\ ShowAutocomplete' = a.show
  /\ AutocompleteIdx' = a.idx
  /\ AutocompleteList' = a.list

\* a plausible slip: the space after the tag is left out
CompletedWithoutSpace(currentVal, selected) ==
  LET words == Fields(currentVal) IN
  IF Len(words) > 0
    THEN Join([words EXCEPT ![Len(words)] = <<"@">> \o selected], <<" ">>)
    ELSE currentVal

\* the input after the selected candidate replaced its last word
\* (lines 115-122, 130-136)
Completed(currentVal, selected) ==
  LET words == Fields(currentVal) IN
  IF Len(words) > 0
    THEN Join([words EXCEPT ![Len(words)] = <<"@">> \o selected], <<" ">>) \o <<" ">>
    ELSE currentVal

\* a plausible slip: the command is dropped (Update returns m, nil)
StartInvokeDropped(history) == UNCHANGED <<ai, invStarted>>

\* m.InvokeAI() appended to the commands Update returns
StartInvoke(history) ==
  /\ ai' = ai \cup {NewInvocation(invStarted + 1, history)}
  /\ invStarted' = invStarted + 1

autoVars == <<Input, ShowAutocomplete, AutocompleteIdx, AutocompleteList>>

-----------------------------------------------------------------------------
(* update.go: Model.Update, one action per message *)

\* case tea.KeyMsg "ctrl+c", "esc" (lines 94-100)
KeyEsc ==
  /\ ~quit
  /\ IF ShowAutocomplete
       THEN /\ ShowAutocomplete' = FALSE
            /\ UNCHANGED quit
       ELSE /\ quit' = TRUE
            /\ UNCHANGED ShowAutocomplete
  /\ UNCHANGED <<History, State, PendingQueue, ShowSidebar, ProcessOutput,
                 Input, AutocompleteIdx, AutocompleteList, envVars,
                 cmdVars, submits>>

\* case "up" (lines 102-106); without a candidate above, the key goes to the
\* end of Update
KeyUp ==
  /\ ~quit
  /\ IF ShowAutocomplete /\ AutocompleteIdx > 0
       THEN /\ AutocompleteIdx' = AutocompleteIdx - 1
            /\ UNCHANGED <<Input, ShowAutocomplete, AutocompleteList>>
       ELSE UpdateTail(Input)
  /\ UNCHANGED <<History, State, PendingQueue, ShowSidebar, ProcessOutput,
                 quit, envVars, cmdVars, submits>>

\* case "down" (lines 107-111)
KeyDown ==
  /\ ~quit
  /\ IF ShowAutocomplete /\ AutocompleteIdx < Len(AutocompleteList) - 1
       THEN /\ AutocompleteIdx' = AutocompleteIdx + 1
            /\ UNCHANGED <<Input, ShowAutocomplete, AutocompleteList>>
       ELSE UpdateTail(Input)
  /\ UNCHANGED <<History, State, PendingQueue, ShowSidebar, ProcessOutput,
                 quit, envVars, cmdVars, submits>>

\* case "tab" (lines 112-125)
KeyTab ==
  /\ ~quit
  /\ IF ShowAutocomplete /\ Len(AutocompleteList) > 0
       THEN /\ Input' = Completed(Input, AutocompleteList[AutocompleteIdx + 1])
            /\ ShowAutocomplete' = FALSE
            /\ UNCHANGED <<AutocompleteIdx, AutocompleteList>>
       ELSE UpdateTail(Input)
  /\ UNCHANGED <<History, State, PendingQueue, ShowSidebar, ProcessOutput,
                 quit, envVars, cmdVars, submits>>

\* a plausible slip: the test of line 155 inverted
StartsNowInverted(state) == state /= StateIdle

\* the submitted message starts the AI at once (line 155)
StartsNow(state) == state = StateIdle

\* case "enter" (lines 127-166): a candidate is selected, or the input is
\* submitted, or (empty input) the key goes to the end of Update
KeyEnter ==
  /\ ~quit
  /\ IF ShowAutocomplete /\ Len(AutocompleteList) > 0
       THEN /\ Input' = Completed(Input, AutocompleteList[AutocompleteIdx + 1])
            /\ ShowAutocomplete' = FALSE
            /\ UNCHANGED <<History, State, PendingQueue, AutocompleteIdx,
                           AutocompleteList, ai, invStarted, submits>>
     ELSE IF Input /= <<>>
       THEN LET finalContent == resolveFileTags(Input)
                history == Append(History, Plain(RoleUser, finalContent))
            IN /\ submits < MaxSubmits
               /\ submits' = submits + 1
               /\ History' = history
               /\ Input' = <<>>
               /\ IF StartsNow(State)
                    THEN /\ State' = StateThinking
                         /\ StartInvoke(history)
                         /\ UNCHANGED PendingQueue
                    ELSE /\ PendingQueue' = Append(PendingQueue, finalContent)
                         /\ UNCHANGED <<State, ai, invStarted>>
               /\ UNCHANGED <<ShowAutocomplete, AutocompleteIdx, AutocompleteList>>
       ELSE /\ UpdateTail(Input)
            /\ UNCHANGED <<History, State, PendingQueue, ai, invStarted, submits>>
  /\ UNCHANGED <<ShowSidebar, ProcessOutput, quit, envVars, nextCallId,
                 aiComplete, resize, procs, procStarted, consumers, outMsgs,
                 requests>>

\* a tea.KeyMsg of runes (typed or pasted text): no case of Update takes it,
\* the textarea inserts the runes at the end of the input (line 276)
KeyRunes(text) ==
  /\ ~quit
  /\ UpdateTail(Input \o text)
  /\ UNCHANGED <<History, State, PendingQueue, ShowSidebar, ProcessOutput,
                 quit, envVars, cmdVars, submits>>

\* a backspace: the textarea drops the last character of its value, then the
\* end of Update runs (lines 276-333)
KeyBackspace ==
  /\ ~quit
  /\ Input /= <<>>
  /\ UpdateTail(SubSeq(Input, 1, Len(Input) - 1))
  /\ UNCHANGED <<History, State, PendingQueue, ShowSidebar, ProcessOutput,
                 quit, envVars, cmdVars, submits>>

\* a message no case of Update takes (cursor blink, spinner tick): only the
\* end of Update runs (lines 276-333)
Blink ==
  /\ ~quit
  /\ UpdateTail(Input)
  /\ UNCHANGED <<History, State, PendingQueue, ShowSidebar, ProcessOutput,
                 quit, envVars, cmdVars, submits>>

\* case tea.WindowSizeMsg (lines 55-90), sent by resizeCmd
WindowSize ==
  /\ ~quit
  /\ resize > 0
  /\ resize' = resize - 1
  /\ UpdateTail(Input)
  /\ UNCHANGED <<History, State, PendingQueue, ShowSidebar, ProcessOutput,
                 quit, envVars, ai, invStarted, nextCallId, aiComplete,
                 procs, procStarted, consumers, outMsgs, requests, submits>>

\* case AiResponseMsg (lines 170-174)
OnAiResponse(inv) ==
  /\ inv.result.type = "AiResponseMsg"
  /\ History' = inv.result.History
  /\ aiComplete' = aiComplete + 1
  /\ ai' = ai \ {inv}
  /\ UpdateTail(Input)
  /\ UNCHANGED <<State, PendingQueue, ShowSidebar, ProcessOutput, quit,
                 envVars, invStarted, nextCallId, resize, procs,
                 procStarted, consumers, outMsgs, requests, submits>>

\* a plausible slip: the newest queued message is taken
NextQueuedLast(queue) == queue[Len(queue)]

\* nextContent := m.PendingQueue[0] (line 179)
NextQueued(queue) == queue[1]

\* case AiCompleteMsg (lines 176-191)
OnAiComplete ==
  /\ ~quit
  /\ aiComplete > 0
  /\ aiComplete' = aiComplete - 1
  /\ IF Len(PendingQueue) > 0
       THEN LET history == Append(History, Plain(RoleUser, NextQueued(PendingQueue)))
            IN /\ PendingQueue' = Tail(PendingQueue)
               /\ History' = history
               /\ State' = StateThinking
               /\ StartInvoke(history)
       ELSE /\ State' = StateIdle
            /\ UNCHANGED <<PendingQueue, History, ai, invStarted>>
  /\ UpdateTail(Input)
  /\ UNCHANGED <<ShowSidebar, ProcessOutput, quit, envVars, nextCallId,
                 resize, procs, procStarted, consumers, outMsgs, requests,
                 submits>>

\* a plausible slip: the error is shown as a message of the user
ErrorMessageAsUser(err) == Plain(RoleUser, <<"**Error:** ">> \o err)

\* the message that shows an error (lines 195-198)
ErrorMessage(err) == Plain(RoleAssistant, <<"**Error:** ">> \o err)

\* case ErrMsg (lines 193-201)
OnErr(inv) ==
  /\ inv.result.type = "ErrMsg"
  /\ History' = Append(History, ErrorMessage(inv.result.Content))
  /\ State' = StateIdle
  /\ ai' = ai \ {inv}
  /\ UpdateTail(Input)
  /\ UNCHANGED <<PendingQueue, ShowSidebar, ProcessOutput, quit, envVars,
                 invStarted, nextCallId, aiComplete, resize, procs,
                 procStarted, consumers, outMsgs, requests, submits>>

\* a new RunProcessCmd command (commands.go lines 35-39): stdout and stderr
\* are the lines its readers have still to send, wrote the lines the process
\* writes in all
NewProcess(n, command, id) ==
  [n |-> n, Command |-> command, ToolCallID |-> id, pc |-> "start",
   stdout |-> <<>>, stderr |-> <<>>, Err |-> <<>>,
   wrote |-> [stdout |-> <<>>, stderr |-> <<>>]]

\* case RunCommandMsg (lines 205-215)
OnRunCommand(inv) ==
  /\ inv.result.type = "RunCommandMsg"
  /\ History' = inv.result.History
  /\ ProcessOutput' = <<>>
  /\ ai' = ai \ {inv}
  /\ procs' = procs \cup {NewProcess(procStarted + 1, inv.result.Arg,
                                     inv.result.ToolCallID)}
  /\ procStarted' = procStarted + 1
  /\ consumers' = consumers + 1
  /\ UNCHANGED <<State, PendingQueue, ShowSidebar, autoVars, quit,
                 envVars, invStarted, nextCallId, aiComplete, resize,
                 outMsgs, requests, submits>>

\* a plausible slip: any other action toggles the sidebar
SidebarAfterToggling(action, shown) ==
  IF action = "open" THEN TRUE ELSE IF action = "close" THEN FALSE ELSE ~shown

\* switch msg.Action (lines 29-34)
SidebarAfter(action, shown) ==
  IF action = "open" THEN TRUE ELSE IF action = "close" THEN FALSE ELSE shown

\* case WindowControlMsg (lines 28-53)
OnWindowControl(inv) ==
  /\ inv.result.type = "WindowControlMsg"
  /\ ShowSidebar' = SidebarAfter(inv.result.Arg, ShowSidebar)
  /\ LET history == Append(inv.result.History,
                      Msg(RoleTool, <<"Window action '", inv.result.Arg, "' triggered.">>,
                          <<>>, inv.result.ToolCallID))
     IN /\ History' = history
        /\ ai' = (ai \ {inv}) \cup {NewInvocation(invStarted + 1, history)}
        /\ invStarted' = invStarted + 1
  /\ State' = StateThinking
  /\ resize' = resize + 1
  /\ UNCHANGED <<PendingQueue, ProcessOutput, autoVars, quit, envVars,
                 nextCallId, aiComplete, procs, procStarted, consumers,
                 outMsgs, requests, submits>>

\* Update on the message an InvokeAI command returned
OnAiResult ==
  /\ ~quit
  /\ \E inv \in ai :
       \/ OnAiResponse(inv)
       \/ OnErr(inv)
       \/ OnRunCommand(inv)
       \/ OnWindowControl(inv)

\* a plausible slip: a line that goes to the sidebar is not kept in the buffer
AccumulatedInlineOnly(output, line, sidebar) ==
  IF sidebar THEN output ELSE Append(output, line)

\* m.ProcessOutput after a line came in (lines 219-234): the same in both
\* branches
Accumulated(output, line, sidebar) ==
  IF sidebar THEN Append(output, line) ELSE Append(output, line)

\* case ProcessOutputMsg (lines 217-237): the line is accumulated in both
\* branches and one more WaitForProcessOutput is returned
OnProcessOutput ==
  /\ ~quit
  /\ \E i \in 1..Len(outMsgs) :
       /\ ProcessOutput' = Accumulated(ProcessOutput, outMsgs[i], ShowSidebar)
       /\ outMsgs' = SubSeq(outMsgs, 1, i - 1) \o SubSeq(outMsgs, i + 1, Len(outMsgs))
  /\ consumers' = consumers + 1
  /\ UNCHANGED <<History, State, PendingQueue, ShowSidebar, autoVars, quit,
                 envVars, ai, invStarted, nextCallId, aiComplete, resize,
                 procs, procStarted, requests, submits>>

\* a plausible slip: the log is folded whether or not the sidebar is shown
ProcessResultAlwaysFolds(err, sidebar, output) ==
  LET result == IF err /= <<>> THEN <<"Process exited with error: ">> \o err
                ELSE <<"Process finished successfully.">>
  IN <<"Process Output:">> \o output \o <<"(end of output)">> \o result

\* the content of the tool message of a finished run (lines 240-265)
ProcessResult(err, sidebar, output) ==
  LET result == IF err /= <<>> THEN <<"Process exited with error: ">> \o err
                ELSE <<"Process finished successfully.">>
  IN IF ~sidebar
       THEN <<"Process Output:">> \o output \o <<"(end of output)">> \o result
       ELSE result

\* case ProcessDoneMsg (lines 239-273)
OnProcessDone ==
  /\ ~quit
  /\ \E p \in procs :
       /\ p.pc = "exited"
       /\ procs' = (procs \ {p}) \cup {[p EXCEPT !.pc = "done"]}
       /\ LET history == Append(History,
                           Msg(RoleTool,
                               ProcessResult(p.Err, ShowSidebar, ProcessOutput),
                               <<>>, p.ToolCallID))
          IN /\ History' = history
             /\ StartInvoke(history)
  /\ ProcessOutput' = <<>>
  /\ State' = StateThinking
  /\ UNCHANGED <<PendingQueue, ShowSidebar, autoVars, quit, envVars,
                 nextCallId, aiComplete, resize, procStarted, consumers,
                 outMsgs, requests, submits>>

-----------------------------------------------------------------------------
(* the environment: the completion endpoint and the operating system *)

\* a tool call as the endpoint names it
CallKind(name, args) == [Name |-> name, Arguments |-> args]

ReadOk == CallKind("read_file", "exists")
ReadMissing == CallKind("read_file", "missing")
UnknownTool == CallKind("frobnicate", "exists")
RunLs == CallKind("run_command", "ls")
RunMalformed == CallKind("run_command", "malformed")
WindowOpen == CallKind("manage_window", "open")
WindowClose == CallKind("manage_window", "close")
WindowToggle == CallKind("manage_window", "toggle")
WindowMalformed == CallKind("manage_window", "malformed")

\* the calls InvokeAI hands to the tool registry
SyncKinds == {ReadOk, ReadMissing, UnknownTool, RunMalformed, WindowMalformed}
\* the calls InvokeAI suspends on
AsyncKinds == {RunLs, WindowOpen, WindowClose, WindowToggle}
CallKinds == SyncKinds \cup AsyncKinds

\* resp.Choices[0].Message, or the failure of CreateChatCompletion
Reply(kind, content, calls) == [kind |-> kind, content |-> content, calls |-> calls]

ApiError == Reply("error", <<>>, <<>>)
NoChoices == Reply("nochoices", <<>>, <<>>)
Content(text) == Reply("choice", text, <<>>)
ToolCalls(calls) == Reply("choice", <<>>, calls)

\* replies every invocation of the model may receive
PlainReplies ==
  {ApiError, NoChoices, Content(<<"hi">>),
   ToolCalls(<<ReadOk>>), ToolCalls(<<RunLs>>), ToolCalls(<<WindowOpen>>)}

\* replies with one or two tool calls of any kind, and an empty content
VariedReplies ==
  {Content(<<>>)}
    \cup {ToolCalls(<<c>>) : c \in CallKinds}
    \cup {ToolCalls(<<c, d>>) : c \in CallKinds, d \in {ReadOk, ReadMissing, RunLs}}
    \cup {ToolCalls(<<ReadMissing, c, ReadOk>>) : c \in {RunLs, WindowOpen, UnknownTool}}

\* the replies of inv so far that are not among the plain ones
Varied(inv) ==
  Cardinality({i \in 1..Len(inv.messages) :
    /\ inv.messages[i].Role = RoleAssistant
    /\ LET calls == inv.messages[i].ToolCalls
       IN /\ calls /= <<>>
          /\ ~(Len(calls) = 1 /\ calls[1].Name = ReadOk.Name
                              /\ calls[1].Arguments = ReadOk.Arguments)})

\* the replies a lone invocation is checked against
LoopReplies(inv) ==
  IF Varied(inv) < MaxVaried THEN PlainReplies \cup VariedReplies ELSE PlainReplies

\* process runs asked for so far
ProcsAsked ==
  procStarted + Cardinality({inv \in ai : inv.result.type = "RunCommandMsg"})

\* the replies a session is checked against
SessionReplies ==
  {ApiError, Content(<<"hi">>), ToolCalls(<<ReadOk>>), ToolCalls(<<WindowOpen>>)}
    \cup (IF ProcsAsked < MaxProcs
            THEN {ToolCalls(<<RunLs>>), ToolCalls(<<RunLs, ReadOk>>)}
            ELSE {})

\* one step of an InvokeAI goroutine: a request and the handling of its reply
AiStep(inv, reply) ==
  /\ inv \in ai
  /\ inv.result.type = "none"
  /\ ai' = (ai \ {inv}) \cup {InvokeStep(inv, reply, nextCallId)}
  /\ nextCallId' = IF providerModel THEN nextCallId + Len(reply.calls) ELSE nextCallId
  /\ requests' = IF providerModel THEN requests + 1 ELSE requests
  /\ UNCHANGED <<modelVars, envVars, invStarted, aiComplete, resize,
                 procs, procStarted, consumers, outMsgs, submits>>

\* an InvokeAI goroutine of the session advances
SessionAiStep ==
  /\ ~quit
  /\ requests < MaxRequests
  /\ \E inv \in ai : \E reply \in SessionReplies : AiStep(inv, reply)

\* the lines a process may write: those of the n-th run on stdout, and its
\* line on stderr
OutLines == << <<"a", "b", "c">>, <<"d", "e", "f">>, <<"g", "h", "i">> >>
ErrLines == <<"x", "y", "z">>

\* a plausible slip: the failed start is reported without its error
StartFailureNoError(p) == [p EXCEPT !.pc = "exited"]

\* cmd.Start() failed: ProcessDoneMsg{Err: err} is returned at once
\* (commands.go lines 45-47)
StartFailure(p) ==
  [p EXCEPT !.pc = "exited", !.Err = <<"executable file not found">>]

\* RunProcessCmd, cmd.Start() (commands.go lines 38-47): it fails, or the
\* process runs and will write up to maxLines lines on stdout and up to one
\* on stderr
ProcStartUpTo(maxLines) ==
  /\ ~quit
  /\ \E p \in procs :
       /\ p.pc = "start"
       /\ \/ procs' = (procs \ {p}) \cup {StartFailure(p)}
          \/ \E k \in 0..maxLines, e \in 0..1 :
               procs' = (procs \ {p}) \cup
                 {[p EXCEPT !.pc = "running",
                            !.stdout = SubSeq(OutLines[p.n], 1, k),
                            !.stderr = SubSeq(<<ErrLines[p.n]>>, 1, e),
                            !.wrote = [stdout |-> SubSeq(OutLines[p.n], 1, k),
                                       stderr |-> SubSeq(<<ErrLines[p.n]>>, 1, e)]]}
  /\ UNCHANGED <<modelVars, envVars, ai, invStarted, nextCallId,
                 aiComplete, resize, procStarted, consumers, outMsgs, requests,
                 submits>>

ProcStart == ProcStartUpTo(MaxLines)

\* a reader goroutine's sub <- line meets a WaitForProcessOutput's <-sub
\* (commands.go lines 50-64, 73-77)
ProcSend ==
  /\ ~quit
  /\ consumers > 0
  /\ \E p \in procs :
       /\ p.pc /= "start"
       /\ \/ /\ p.stdout /= <<>>
             /\ outMsgs' = Append(outMsgs, Head(p.stdout))
             /\ procs' = (procs \ {p}) \cup {[p EXCEPT !.stdout = Tail(@)]}
          \/ /\ p.stderr /= <<>>
             /\ outMsgs' = Append(outMsgs, Head(p.stderr))
             /\ procs' = (procs \ {p}) \cup {[p EXCEPT !.stderr = Tail(@)]}
  /\ consumers' = consumers - 1
  /\ UNCHANGED <<modelVars, envVars, ai, invStarted, nextCallId,
                 aiComplete, resize, procStarted, requests, submits>>

\* the prefixes of a sequence
Prefixes(s) == {SubSeq(s, 1, k) : k \in 0..Len(s)}

\* cmd.Wait() returns (commands.go lines 67-68): the process has exited, with
\* or without an error, and Wait closes the pipes, so a reader gets only the
\* lines it had read by then
ProcExit ==
  /\ ~quit
  /\ \E p \in procs :
       /\ p.pc = "running"
       /\ \E err \in {<<>>, <<"exit status 1">>} :
          \E out \in Prefixes(p.stdout), errs \in Prefixes(p.stderr) :
            procs' = (procs \ {p}) \cup
              {[p EXCEPT !.pc = "exited", !.Err = err, !.stdout = out,
                         !.stderr = errs]}
  /\ UNCHANGED <<modelVars, envVars, ai, invStarted, nextCallId,
                 aiComplete, resize, procStarted, consumers, outMsgs, requests,
                 submits>>

-----------------------------------------------------------------------------
(* the session *)

\* the texts typed into the empty input, in this order
InputTexts ==
  << <<"f", "o", "o">>, <<"b", "a", "r">>, <<"b", "a", "z">>, <<"q", "u", "x">> >>

\* InitialModel and Init (model.go lines 58-116); bubbletea sends the
\* terminal's size once at start
Init ==
  /\ History = initialHistory
  /\ State = StateIdle
  /\ PendingQueue = <<>>
  /\ ShowSidebar = FALSE
  /\ ProcessOutput = <<>>
  /\ Input = <<>>
  /\ ShowAutocomplete = FALSE
  /\ AutocompleteIdx = 0
  /\ AutocompleteList = <<>>
  /\ quit = FALSE
  /\ providerModel \in BOOLEAN
  /\ Files = ProjectFiles
  /\ fileContent = ProjectFile
  /\ editResult = NoEdit
  /\ ai = {NewInvocation(1, initialHistory)}
  /\ invStarted = 1
  /\ nextCallId = 1
  /\ aiComplete = 0
  /\ resize = 1
  /\ procs = {}
  /\ procStarted = 0
  /\ consumers = 0
  /\ outMsgs = <<>>
  /\ requests = 0
  /\ submits = 0

\* text typed or pasted into the empty input
Type ==
  /\ Input = <<>>
  /\ submits < MaxSubmits
  /\ KeyRunes(InputTexts[submits + 1])

Next ==
  \/ KeyEnter
  \/ Type
  \/ Blink
  \/ WindowSize
  \/ OnAiResult
  \/ OnAiComplete
  \/ OnProcessOutput
  \/ OnProcessDone
  \/ SessionAiStep
  \/ ProcStart
  \/ ProcSend
  \/ ProcExit

Spec == Init /\ [][Next]_vars

-----------------------------------------------------------------------------
(* the session without tool calls, with tags and autocomplete in the input *)

\* the texts typed into an empty input
TaggedTexts ==
  { <<"f", "o", "o">>, <<"b", "a", "r">>, <<"@">>,
    <<"s", "e", "e", " ", "@", "a", ".", "g", "o">> }

\* text typed or pasted into the empty input
TypeAny == Input = <<>> /\ \E text \in TaggedTexts : KeyRunes(text)

\* an InvokeAI goroutine advances; the model answers with text or not at all
InputAiStep ==
  /\ ~quit
  /\ requests < MaxRequests
  /\ \E inv \in ai : \E reply \in {Content(<<"hi">>), ApiError} : AiStep(inv, reply)

InputNext ==
  \/ KeyEsc
  \/ KeyUp
  \/ KeyDown
  \/ KeyTab
  \/ KeyEnter
  \/ TypeAny
  \/ Blink
  \/ WindowSize
  \/ OnAiResult
  \/ OnAiComplete
  \/ InputAiStep

InputSpec == Init /\ [][InputNext]_vars

-----------------------------------------------------------------------------
(* the session after one dispatch, against a model that answers every *)
(* request with an out-of-band tool call                              *)

\* requests the endpoint answers in such a session, the start-up one included
MaxResumeRequests == 12

\* the session once the start-up invocation was answered "hi" and "foo" was
\* submitted while Idle (model.go lines 58-116, update.go lines 140-174)
ResumeInit ==
  /\ History = initialHistory \o <<FinalMsg(<<"hi">>),
                                    Plain(RoleUser, <<"f", "o", "o">>)>>
  /\ State = StateThinking
  /\ PendingQueue = <<>>
  /\ ShowSidebar = FALSE
  /\ ProcessOutput = <<>>
  /\ Input = <<>>
  /\ ShowAutocomplete = FALSE
  /\ AutocompleteIdx = 0
  /\ AutocompleteList = <<>>
  /\ quit = FALSE
  /\ providerModel = TRUE
  /\ Files = ProjectFiles
  /\ fileContent = ProjectFile
  /\ editResult = NoEdit
  /\ ai = {NewInvocation(2, History)}
  /\ invStarted = 2
  /\ nextCallId = 1
  /\ aiComplete = 0
  /\ resize \in {0, 1}
  /\ procs = {}
  /\ procStarted = 0
  /\ consumers = 0
  /\ outMsgs = <<>>
  /\ requests = 1
  /\ submits = 1

\* the replies of a model that always asks for an out-of-band tool
ResumeReplies ==
  {ToolCalls(<<WindowOpen>>)}
    \cup (IF ProcsAsked < MaxProcs THEN {ToolCalls(<<RunLs>>)} ELSE {})

\* an InvokeAI goroutine advances; the endpoint returns one of these replies
ResumeAiStep ==
  /\ requests < MaxResumeRequests
  /\ \E inv \in ai : \E reply \in ResumeReplies : AiStep(inv, reply)

ResumeNext ==
  \/ WindowSize
  \/ OnAiResult
  \/ OnProcessOutput
  \/ OnProcessDone
  \/ ResumeAiStep
  \/ ProcStart
  \/ ProcSend
  \/ ProcExit

ResumeSpec == ResumeInit /\ [][ResumeNext]_vars

-----------------------------------------------------------------------------
(* the session after one dispatch, against a model that runs processes and *)
(* moves the sidebar                                                       *)

\* process runs of such a session
MaxRuns == 2
\* lines a run writes on stdout
MaxRunLines == 2
\* requests the endpoint answers in such a session, the start-up one included
MaxProcRequests == 3

ProcInit == ResumeInit /\ resize = 0

\* the replies of the model in such a session: it moves the sidebar before
\* it runs processes
ProcReplies ==
  {Content(<<"hi">>)}
    \cup (IF ProcsAsked = 0
            THEN {ToolCalls(<<WindowOpen>>), ToolCalls(<<WindowClose>>),
                  ToolCalls(<<WindowToggle>>)}
            ELSE {})
    \cup (IF ProcsAsked < MaxRuns THEN {ToolCalls(<<RunLs>>)} ELSE {})

\* an InvokeAI goroutine advances; the endpoint returns one of these replies
ProcAiStep ==
  /\ requests < MaxProcRequests
  /\ \E inv \in ai : \E reply \in ProcReplies : AiStep(inv, reply)

RunStart == ProcStartUpTo(MaxRunLines)

ProcNext ==
  \/ WindowSize
  \/ OnAiResult
  \/ OnAiComplete
  \/ OnProcessOutput
  \/ OnProcessDone
  \/ ProcAiStep
  \/ RunStart
  \/ ProcSend
  \/ ProcExit

ProcSpec == ProcInit /\ [][ProcNext]_vars

-----------------------------------------------------------------------------
(* one invocation on its own *)

\* histories an invocation starts from
LoopHistories ==
  { initialHistory,
    Append(initialHistory, Plain(RoleUser, <<"f", "o", "o">>)),
    initialHistory \o << Plain(RoleAssistant, <<"hi">>),
                         Plain(RoleUser, <<"f", "o", "o">>) >> }

\* the state in which Update has just returned m.InvokeAI()
LoopInit ==
  /\ History \in LoopHistories
  /\ State = StateThinking
  /\ PendingQueue = <<>>
  /\ ShowSidebar = FALSE
  /\ ProcessOutput = <<>>
  /\ Input = <<>>
  /\ ShowAutocomplete = FALSE
  /\ AutocompleteIdx = 0
  /\ AutocompleteList = <<>>
  /\ quit = FALSE
  /\ providerModel \in BOOLEAN
  /\ Files = ProjectFiles
  /\ fileContent = ProjectFile
  /\ editResult = NoEdit
  /\ ai = {NewInvocation(1, History)}
  /\ invStarted = 1
  /\ nextCallId = 1
  /\ aiComplete = 0
  /\ resize = 0
  /\ procs = {}
  /\ procStarted = 0
  /\ consumers = 0
  /\ outMsgs = <<>>
  /\ requests = 0
  /\ submits = 0

\* the InvokeAI goroutine advances
LoopAiStep == \E inv \in ai : \E reply \in LoopReplies(inv) : AiStep(inv, reply)

LoopNext == LoopAiStep

LoopSpec == LoopInit /\ [][LoopNext]_vars

-----------------------------------------------------------------------------
(* the agent loop: claims C1, C2, C4, C5, C6, checked under LoopSpec, where *)
(* History stays the history H the invocation started from                  *)

MaxIterationsError == ErrMsg(<<"max iterations reached - possible infinite loop">>)

\* the reply carries no tool call
ContentOnly(reply) == reply.kind = "choice" /\ reply.calls = <<>>

\* the reply carries tool calls
WithCalls(reply) == reply.kind = "choice" /\ reply.calls /= <<>>

\* the reply carries tool calls, each of them executed synchronously
SyncOnly(reply) ==
  /\ WithCalls(reply)
  /\ \A i \in 1..Len(reply.calls) : ~OutOfBand(reply.calls[i])

\* the first k replies of inv are all tool-call-only and synchronous
FirstSync(inv, k) ==
  /\ Len(inv.replies) >= k
  /\ \A i \in 1..k : SyncOnly(inv.replies[i])

\* C1: an invocation sends at most 10 requests; after ten replies whose tool
\* calls were all executed synchronously it has returned the max-iterations
\* failure (and, having returned, sends no 11th request).
C1_AtMostTenRequests ==
  \A inv \in ai :
    /\ Len(inv.replies) <= 10
    /\ FirstSync(inv, 10) => inv.result = MaxIterationsError

C1_Witness ==
  \E inv \in ai : FirstSync(inv, 10) /\ inv.result = MaxIterationsError

\* C2 as stated: after ten consecutive tool-call-only replies the invocation
\* is still to end on the reply that follows (FinalResponse on a content
\* reply, the failure only on an eleventh tool-call-only reply).
C2_EndsOnEleventhReply ==
  \A inv \in ai : FirstSync(inv, 10) => inv.result.type = "none"

\* C2 amended: a content-only reply after k <= 9 tool-call-only replies ends
\* the invocation with FinalResponse on request k + 1 <= 10; a tenth
\* tool-call-only reply ends it with the max-iterations failure on request
\* 10; no invocation makes more than 10 requests.
C2_NineThenContent ==
  \A inv \in ai :
    /\ Len(inv.replies) <= 10
    /\ \A k \in 0..Len(inv.replies) :
         (FirstSync(inv, k) /\ Len(inv.replies) > k /\ ContentOnly(inv.replies[k + 1]))
           => /\ k <= 9
              /\ Len(inv.replies) = k + 1
              /\ inv.result.type = "AiResponseMsg"
    /\ FirstSync(inv, 10) => (inv.result.type = "ErrMsg" /\ Len(inv.replies) = 10)

C2_Witness ==
  \E inv \in ai :
    /\ FirstSync(inv, 9)
    /\ Len(inv.replies) = 10
    /\ ContentOnly(inv.replies[10])
    /\ inv.result.type = "AiResponseMsg"

\* C4: when the first reply carries no tool call, the invocation has made
\* exactly one request and returned FinalResponse with the history H followed
\* by one assistant message holding the reply's content.
C4_ZeroToolCallReply ==
  \A inv \in ai :
    (Len(inv.replies) >= 1 /\ ContentOnly(inv.replies[1]))
      => /\ Len(inv.replies) = 1
         /\ inv.result.type = "AiResponseMsg"
         /\ inv.result.Content = inv.replies[1].content
         /\ inv.result.History =
              Append(History, Plain(RoleAssistant, inv.replies[1].content))

C4_Witness ==
  \E inv \in ai :
    /\ Len(History) = 4
    /\ inv.replies = <<Content(<<"hi">>)>>
    /\ inv.result.type = "AiResponseMsg"

\* the index of the first out-of-band call of calls
FirstOutOfBand(calls) ==
  CHOOSE j \in 1..Len(calls) :
    OutOfBand(calls[j]) /\ \A i \in 1..(j - 1) : ~OutOfBand(calls[i])

\* the tool messages of a history that answer call id
ToolMsgs(messages, id) ==
  {i \in 1..Len(messages) :
     messages[i].Role = RoleTool /\ messages[i].ToolCallID = id}

\* C5: on a reply with tool calls the assistant message (content and all
\* calls) comes first, then one tool result per synchronous call in order; at
\* the first out-of-band call j the invocation returns the async request of
\* that call's kind and id with the history so far; the calls from j on are
\* not executed and get no tool result.
C5_SuspendsAtFirstOutOfBand ==
  \A inv \in ai :
    LET k == Len(inv.replies) IN
    (k > 0 /\ WithCalls(inv.replies[k]) /\ ~SyncOnly(inv.replies[k]))
      => LET r == inv.replies[k]
             j == FirstOutOfBand(r.calls)
             base == Len(inv.sent)
             am == inv.messages[base + 1]
         IN /\ Len(inv.messages) = base + j
            /\ SubSeq(inv.messages, 1, base) = inv.sent
            /\ am.Role = RoleAssistant
            /\ am.Content = r.content
            /\ Len(am.ToolCalls) = Len(r.calls)
            /\ \A i \in 1..Len(r.calls) :
                 /\ am.ToolCalls[i].Name = r.calls[i].Name
                 /\ am.ToolCalls[i].Arguments = r.calls[i].Arguments
            /\ \A i \in 1..(j - 1) :
                 /\ inv.messages[base + 1 + i].Role = RoleTool
                 /\ inv.messages[base + 1 + i].ToolCallID = am.ToolCalls[i].ID
                 /\ am.ToolCalls[i].ID \in Range(inv.executed)
            /\ inv.result.type = (IF r.calls[j].Name = "run_command"
                                    THEN "RunCommandMsg" ELSE "WindowControlMsg")
            /\ inv.result.ToolCallID = am.ToolCalls[j].ID
            /\ inv.result.History = inv.messages
            /\ \A i \in j..Len(r.calls) :
                 /\ am.ToolCalls[i].ID \notin Range(inv.executed)
                 /\ ToolMsgs(inv.messages, am.ToolCalls[i].ID) = {}

C5_Witness ==
  \E inv \in ai :
    /\ Len(inv.replies) = 2
    /\ inv.replies[2] = ToolCalls(<<ReadMissing, RunLs, ReadOk>>)
    /\ inv.result.type = "RunCommandMsg"
    /\ Len(inv.result.History) = Len(inv.sent) + 2

\* the position in inv.messages of the assistant message of reply k
AssistantIdx(inv, k) ==
  CHOOSE a \in 1..Len(inv.messages) :
    /\ a > Len(History)
    /\ inv.messages[a].Role = RoleAssistant
    /\ inv.messages[a].ToolCalls /= <<>>
    /\ Cardinality({b \in (Len(History) + 1)..a :
         inv.messages[b].Role = RoleAssistant /\ inv.messages[b].ToolCalls /= <<>>}) = k

\* the registry returns an error for the call
Fails(call) == ExecuteToolByName(call.Name, call.Arguments)[2] /= <<>>

\* call c of the reply is reached: no out-of-band call precedes it
Reached(reply, c) == \A i \in 1..(c - 1) : ~OutOfBand(reply.calls[i])

\* C6: a synchronous tool error (an unknown name included) does not end the
\* invocation: the failing call gets exactly one tool result with its id and
\* a non-empty error text, the calls after it are still processed, the loop
\* goes on after a reply of synchronous calls, and the next request carries
\* that tool result.
C6_ToolErrorIsAToolResult ==
  \A inv \in ai :
    \A k \in 1..Len(inv.replies) :
      WithCalls(inv.replies[k]) =>
        LET r == inv.replies[k]
            am == inv.messages[AssistantIdx(inv, k)]
        IN \A c \in 1..Len(r.calls) :
             (Reached(r, c) /\ ~OutOfBand(r.calls[c]) /\ Fails(r.calls[c])) =>
               LET id == am.ToolCalls[c].ID
                   t == ToolMsgs(inv.messages, id)
               IN /\ Cardinality(t) = 1
                  /\ \A i \in t :
                       /\ inv.messages[i].Content /= <<>>
                       /\ inv.messages[i].Content[1] = "Error executing tool: "
                       /\ Len(inv.replies) > k => inv.messages[i] \in Range(inv.sent)
                  /\ \A d \in (c + 1)..Len(r.calls) :
                       (Reached(r, d) /\ ~OutOfBand(r.calls[d]))
                         => Cardinality(ToolMsgs(inv.messages, am.ToolCalls[d].ID)) = 1
                  /\ (SyncOnly(r) /\ k < 10 /\ Len(inv.replies) = k)
                       => inv.result.type = "none"

C6_Witness ==
  \E inv \in ai :
    /\ Len(inv.replies) = 2
    /\ inv.replies[1] = ToolCalls(<<UnknownTool, ReadOk>>)
    /\ \E i \in 1..Len(inv.sent) :
         /\ inv.sent[i].Role = RoleTool
         /\ inv.sent[i].Content = <<"Error executing tool: ", "unknown tool: ", "frobnicate">>

-----------------------------------------------------------------------------
(* the session: claim C3, checked under ResumeSpec *)

\* the requests the endpoint has answered since "foo" was dispatched
RequestsSinceDispatch == requests - 1

\* C3: the iteration bound ends a dispatched submission against a model that
\* answers every request with tool calls: the session is back in phase Idle
\* by the time the endpoint has answered MaxIterations requests for it, so
\* while the phase is still Thinking no more than MaxIterations requests
\* have been answered since the dispatch.
C3_IterationBoundEndsTheDispatch ==
  State = StateThinking => RequestsSinceDispatch <= MaxIterations

-----------------------------------------------------------------------------
(* the session: claims C7, C8, checked under Spec *)

\* the nearest assistant message before position i of the history, 0 if none
NearestAssistant(history, i) ==
  LET before == {a \in 1..(i - 1) : history[a].Role = RoleAssistant}
  IN IF before = {} THEN 0 ELSE CHOOSE a \in before : \A b \in before : b <= a

\* the tool message at position i answers a call of the nearest assistant
\* message before it
AnswersNearestAssistant(history, i) ==
  LET a == NearestAssistant(history, i)
  IN /\ a > 0
     /\ \E c \in 1..Len(history[a].ToolCalls) :
          history[a].ToolCalls[c].ID = history[i].ToolCallID

\* C7: in every reachable state of the session, every tool message of the
\* history carries the id of one of the tool calls of the nearest assistant
\* message before it.
C7_ToolMessagesAnswerNearestAssistant ==
  \A i \in 1..Len(History) :
    History[i].Role = RoleTool => AnswersNearestAssistant(History, i)

\* C8: the history is append-only: on every transition the history before it
\* is a prefix of the history after it.
C8_HistoryAppendOnly == [][IsPrefix(History, History')]_vars

-----------------------------------------------------------------------------
(* the session: claims C9, C10, checked under InputSpec *)

\* the Enter key submits the input: no candidate is offered
Submits == KeyEnter /\ ~ShowAutocomplete

\* C9: Enter on a non-empty input while Idle and without autocomplete appends
\* the tagged input to the history as one user message, makes the phase
\* Thinking, starts exactly one invocation (on that history) and leaves the
\* queue alone; Enter on an empty input changes neither history, queue nor
\* phase.
C9_IdleSubmitDispatches ==
  [][ /\ (Submits /\ Input /= <<>> /\ State = StateIdle) =>
           /\ History' = Append(History, Plain(RoleUser, resolveFileTags(Input)))
           /\ State' = StateThinking
           /\ ai \subseteq ai'
           /\ Cardinality(ai' \ ai) = 1
           /\ \A inv \in ai' \ ai : inv.messages = History' /\ inv.result = NoResult
           /\ PendingQueue' = PendingQueue
      /\ (Submits /\ Input = <<>>) => UNCHANGED <<History, PendingQueue, State>>
    ]_vars

\* the tagged text of the input "see @a.go"
SeeTagged == resolveFileTags(<<"s", "e", "e", " ", "@", "a", ".", "g", "o">>)

\* a tagged input was dispatched while Idle: it is the last message of the
\* history, with its hint, and the invocation started last runs on it
C9_Witness ==
  /\ State = StateThinking
  /\ submits = 1
  /\ PendingQueue = <<>>
  /\ Len(SeeTagged) > 9
  /\ History[Len(History)] = Plain(RoleUser, SeeTagged)
  /\ \E inv \in ai : inv.n = invStarted /\ inv.messages = History

\* C10: Enter on a non-empty input while Thinking appends the tagged input at
\* the tail of the queue, leaves the phase Thinking and starts no invocation;
\* so "bar" submitted while Thinking after "foo" was dispatched while Idle
\* leaves the queue equal to <<"bar">>.
C10_ThinkingSubmitQueues ==
  [][ (Submits /\ Input /= <<>> /\ State = StateThinking) =>
        /\ PendingQueue' = Append(PendingQueue, resolveFileTags(Input))
        /\ State' = StateThinking
        /\ ai' = ai
        /\ invStarted' = invStarted
        /\ ( /\ submits = 1
             /\ History[Len(History)] = Plain(RoleUser, <<"f", "o", "o">>)
             /\ Input = <<"b", "a", "r">> )
             => PendingQueue' = << <<"b", "a", "r">> >>
    ]_vars

\* "foo" was dispatched while Idle and "bar" submitted while Thinking
C10_Witness ==
  /\ State = StateThinking
  /\ submits = 2
  /\ invStarted = 2
  /\ PendingQueue = << <<"b", "a", "r">> >>
  /\ Len(History) >= 2
  /\ History[Len(History) - 1] = Plain(RoleUser, <<"f", "o", "o">>)
  /\ History[Len(History)] = Plain(RoleUser, <<"b", "a", "r">>)

-----------------------------------------------------------------------------
(* the session: claim C11, checked under Spec *)

\* the place of a text among the texts submitted, in the order of submission
SubmissionIndex(text) == CHOOSE k \in 1..Len(InputTexts) : InputTexts[k] = text

\* C11: on a completion event with a non-empty queue the head of the queue is
\* removed and appended to the history as a user message, the phase is
\* Thinking and one invocation is started on that history; with an empty
\* queue the phase becomes Idle and nothing is started. The queue holds its
\* messages in the order they were submitted, so they leave it in that order,
\* one per completion event.
C11_CompletionDequeuesHead ==
  /\ [](\A i, j \in 1..Len(PendingQueue) :
          i < j => SubmissionIndex(PendingQueue[i]) < SubmissionIndex(PendingQueue[j]))
  /\ [][ OnAiComplete =>
           IF PendingQueue /= <<>>
             THEN /\ PendingQueue' = Tail(PendingQueue)
                  /\ History' = Append(History, Plain(RoleUser, Head(PendingQueue)))
                  /\ State' = StateThinking
                  /\ ai \subseteq ai'
                  /\ Cardinality(ai' \ ai) = 1
                  /\ \A inv \in ai' \ ai :
                       inv.messages = History' /\ inv.result = NoResult
             ELSE /\ State' = StateIdle
                  /\ UNCHANGED <<History, PendingQueue, ai>>
       ]_vars

\* two messages were queued and a completion event has dispatched the first:
\* "foo" is the last message of the history, "bar" is still queued
C11_Witness ==
  /\ submits = 2
  /\ aiComplete = 0
  /\ State = StateThinking
  /\ PendingQueue = << <<"b", "a", "r">> >>
  /\ History[Len(History)] = Plain(RoleUser, <<"f", "o", "o">>)
  /\ \E k \in 1..(Len(History) - 1) : History[k].Role = RoleTool
  /\ \E inv \in ai : inv.n = invStarted /\ inv.messages = History

-----------------------------------------------------------------------------
(* the session: claim C12, checked under Spec *)

\* the run was accepted and its ProcessDoneMsg is not handled yet
Unfinished(p) == p.pc /= "done"

\* C12: accepting a RunCommandMsg sets the history to the returned history,
\* empties the output buffer and starts the process runner, and the phase is
\* Thinking in every state from then until the run's completion event has
\* been handled.
C12_ThinkingWhileProcessRuns ==
  /\ [][ \A inv \in ai : (~quit /\ OnRunCommand(inv)) =>
           /\ History' = inv.result.History
           /\ ProcessOutput' = <<>>
           /\ Cardinality(procs' \ procs) = 1
           /\ \A p \in procs' \ procs :
                p.ToolCallID = inv.result.ToolCallID /\ Unfinished(p)
       ]_vars
  /\ [](\A p \in procs : Unfinished(p) => State = StateThinking)

-----------------------------------------------------------------------------
(* the process runs: claims C13 to C18, checked under ProcSpec *)

\* the text that tells how the run ended
EndText(err) ==
  IF err = <<>> THEN <<"Process finished successfully.">>
  ELSE <<"Process exited with error: ">> \o err

\* the last message of a history
Last(history) == history[Len(history)]

\* C13: the completion event of a run appends exactly one tool message with
\* the run's call id; its content is the success text when the exit error is
\* nil and the failure text otherwise, with the output buffer folded in if
\* and only if the sidebar is not shown; afterwards the buffer is empty, the
\* phase is Thinking and one invocation is started on the new history.
C13_CompletionAppendsToolResult ==
  [][ OnProcessDone =>
        \E p \in procs \ procs' :
          /\ p.pc = "exited"
          /\ Len(History') = Len(History) + 1
          /\ IsPrefix(History, History')
          /\ Last(History').Role = RoleTool
          /\ Last(History').ToolCallID = p.ToolCallID
          /\ Last(History').Content =
               IF ShowSidebar THEN EndText(p.Err)
               ELSE <<"Process Output:">> \o ProcessOutput
                      \o <<"(end of output)">> \o EndText(p.Err)
          /\ ProcessOutput' = <<>>
          /\ State' = StateThinking
          /\ ai \subseteq ai'
          /\ Cardinality(ai' \ ai) = 1
          /\ \A inv \in ai' \ ai : inv.messages = History' /\ inv.result = NoResult
    ]_vars

\* a run that wrote "a" and "b" has completed with the sidebar hidden: its
\* log is in the tool message and the buffer is empty
C13_Witness ==
  /\ ~ShowSidebar
  /\ ProcessOutput = <<>>
  /\ State = StateThinking
  /\ Last(History).Role = RoleTool
  /\ Last(History).Content =
       <<"Process Output:", "a", "b", "(end of output)",
         "Process finished successfully.">>
  /\ \E inv \in ai : inv.n = invStarted /\ inv.messages = History

\* two lines of one stdout stream stand in the buffer in the order the
\* process wrote them (a run writes one line at most on stderr)
InStreamOrder(buffer) ==
  \A i, j \in 1..Len(buffer) :
    \A n \in 1..Len(OutLines) : \A a, b \in 1..Len(OutLines[n]) :
      (i < j /\ buffer[i] = OutLines[n][a] /\ buffer[j] = OutLines[n][b]) => a < b

\* C14: the lines of one output stream are accumulated into the output
\* buffer in the order the process wrote them, in the first run and in every
\* later run, whatever the interleaving of readers and consumers.
C14_StreamOrderPreserved == InStreamOrder(ProcessOutput)

\* the lines of the buffer that a stream wrote, in the buffer's order
FromStream(buffer, lines) == SelectSeq(buffer, LAMBDA l : l \in Range(lines))

\* C15: a run has one completion event, and when it is handled every line
\* the run wrote has been delivered to the state machine: the buffer holds
\* the lines of its stdout and of its stderr, each in order; so for a run
\* that wrote "a", "b" on stdout and exited cleanly the buffer holds "a", "b"
\* when the completion event, with a nil error, is handled.
C15_LinesBeforeCompletion ==
  [][ /\ OnProcessDone =>
           \E p \in procs \ procs' :
             /\ p.pc = "exited"
             /\ FromStream(ProcessOutput, OutLines[p.n]) = p.wrote.stdout
             /\ FromStream(ProcessOutput, <<ErrLines[p.n]>>) = p.wrote.stderr
             /\ (p.wrote.stdout = <<"a", "b">> /\ p.wrote.stderr = <<>> /\ p.Err = <<>>)
                  => ProcessOutput = <<"a", "b">>
      /\ \A p \in procs : p.pc = "done" =>
           \E q \in procs' : q.n = p.n /\ q.pc = "done"
    ]_vars

\* the error of a start that failed
StartError == <<"executable file not found">>

\* the lines the n-th run could write
LinesOfRun(n) == Range(OutLines[n]) \cup {ErrLines[n]}

\* C16: a start that fails goes straight to the completion event, which
\* carries a non-nil error and the call id; the run has no output event, no
\* line of it is ever received or accumulated; the completion is handled as
\* any other: a tool message with the call id and the failure text is
\* appended and an invocation is started on the history that holds it.
C16_StartFailureIsAToolResult ==
  /\ [][ /\ \A p \in procs : \A q \in procs' :
              (p.pc = "start" /\ q.n = p.n /\ q.pc = "exited") =>
                /\ q.Err /= <<>>
                /\ q.ToolCallID = p.ToolCallID
                /\ q.stdout = <<>> /\ q.stderr = <<>>
                /\ q.wrote = [stdout |-> <<>>, stderr |-> <<>>]
         /\ OnProcessDone =>
              \E p \in procs \ procs' :
                p.Err = StartError =>
                  /\ Last(History').Role = RoleTool
                  /\ Last(History').ToolCallID = p.ToolCallID
                  /\ SubSeq(Last(History').Content, Len(Last(History').Content) - 1,
                            Len(Last(History').Content))
                       = <<"Process exited with error: ">> \o StartError
                  /\ \E inv \in ai' \ ai : inv.messages = History'
       ]_vars
  /\ [](\A p \in procs : p.Err = StartError =>
          (Range(outMsgs) \cup Range(ProcessOutput)) \cap LinesOfRun(p.n) = {})

\* a start has failed and its completion was handled: the failure is the
\* last message of the history the new invocation runs on
C16_Witness ==
  /\ \E p \in procs : p.pc = "done" /\ p.Err = StartError
                      /\ Last(History).ToolCallID = p.ToolCallID
  /\ Last(History).Role = RoleTool
  /\ Last(History).Content =
       <<"Process Output:", "(end of output)", "Process exited with error: ">>
         \o StartError
  /\ State = StateThinking
  /\ \E inv \in ai : inv.n = invStarted /\ inv.messages = History

\* the lines the runs before the n-th could write
LinesOfEarlierRuns(n) == UNION {LinesOfRun(m) : m \in 1..(n - 1)}

\* C17: a line of one run is never received for a later run: once a later
\* run is accepted, the buffer, which is then that run's, holds no line of an
\* earlier run, and neither does the tool message of any run.
C17_NoLineOfAnEarlierRun ==
  /\ Range(ProcessOutput) \cap LinesOfEarlierRuns(procStarted) = {}
  /\ \A p \in procs : \A i \in 1..Len(History) :
       (History[i].Role = RoleTool /\ History[i].ToolCallID = p.ToolCallID)
         => Range(History[i].Content) \cap LinesOfEarlierRuns(p.n) = {}

\* the acknowledgement of a window action (lines 37-43)
Acknowledgement(action, id) ==
  Msg(RoleTool, <<"Window action '", action, "' triggered.">>, <<>>, id)

\* C18: on a WindowControlMsg "open" shows the sidebar, "close" hides it and
\* any other action leaves it as it is; the history becomes the returned
\* history plus one acknowledgement with the request's call id; one
\* WindowSizeMsg is triggered; the phase is Thinking and one invocation is
\* started on the new history.
C18_WindowControl ==
  [][ \A inv \in ai : (~quit /\ OnWindowControl(inv)) =>
        /\ inv.result.Arg = "open" => ShowSidebar'
        /\ inv.result.Arg = "close" => ~ShowSidebar'
        /\ inv.result.Arg \notin {"open", "close"} => ShowSidebar' = ShowSidebar
        /\ History' = Append(inv.result.History,
                             Acknowledgement(inv.result.Arg, inv.result.ToolCallID))
        /\ resize' = resize + 1
        /\ State' = StateThinking
        /\ Cardinality(ai' \ ai) = 1
        /\ \A new \in ai' \ ai : new.messages = History' /\ new.result = NoResult
    ]_vars

\* the sidebar was opened and a "toggle" was handled after it: the sidebar
\* is still shown and the acknowledgement is the last message
C18_Witness ==
  /\ ShowSidebar
  /\ State = StateThinking
  /\ resize > 0
  /\ Len(History) >= 4
  /\ Last(History).Role = RoleTool
  /\ Last(History).Content = <<"Window action '", "toggle", "' triggered.">>
  /\ History[Len(History) - 1].Role = RoleAssistant
  /\ History[Len(History) - 1].ToolCalls[1].ID = Last(History).ToolCallID
  /\ \E inv \in ai : inv.n = invStarted /\ inv.messages = History

-----------------------------------------------------------------------------
(* the session: claim C19, checked under Spec *)

\* C19: in any phase, an ErrMsg appends one assistant message with the error
\* text to the session's history, and nothing else of the failed invocation;
\* the phase becomes Idle, no invocation is started and the queue is left as
\* it is.
C19_FailureShownAndIdle ==
  [][ \A inv \in ai : (~quit /\ OnErr(inv)) =>
        /\ Len(History') = Len(History) + 1
        /\ IsPrefix(History, History')
        /\ Last(History').Role = RoleAssistant
        /\ Last(History').ToolCalls = <<>>
        /\ Last(History').Content = <<"**Error:** ">> \o inv.result.Content
        /\ inv.result.Content /= <<>>
        /\ State' = StateIdle
        /\ ai' = ai \ {inv}
        /\ invStarted' = invStarted
        /\ PendingQueue' = PendingQueue
    ]_vars

\* an invocation failed while Thinking with "foo" queued: the error is the
\* last message, the phase is Idle and "foo" is still queued
C19_Witness ==
  /\ State = StateIdle
  /\ PendingQueue = << <<"f", "o", "o">> >>
  /\ Last(History) = Plain(RoleAssistant, <<"**Error:** ", "API error: ", "endpoint">>)
  /\ ai = {}

-----------------------------------------------------------------------------
(* the agent loop: claim C20, checked under LoopSpec *)

\* the reply is an error of the endpoint or carries no choice
Failed(reply) == reply.kind \in {"error", "nochoices"}

\* the tool calls of the first k replies
RECURSIVE CallsIn(_, _)
CallsIn(replies, k) ==
  IF k = 0 THEN 0 ELSE CallsIn(replies, k - 1) + Len(replies[k].calls)

\* C20: an endpoint error or a reply without choices, at any iteration, is
\* the last reply of the invocation: InvokeAI has returned an ErrMsg, which
\* carries a text and no history; no tool was executed after it and no
\* message was added to those of the request.
C20_FailedRequestEndsInvocation ==
  \A inv \in ai : \A k \in 1..Len(inv.replies) :
    Failed(inv.replies[k]) =>
      /\ k = Len(inv.replies)
      /\ inv.result.type = "ErrMsg"
      /\ inv.result.Content /= <<>>
      /\ inv.result.History = <<>>
      /\ Len(inv.executed) = CallsIn(inv.replies, k - 1)
      /\ inv.messages = inv.sent

\* the second request of an invocation, sent after a tool was executed, came
\* back without choices
C20_Witness ==
  \E inv \in ai :
    /\ Len(inv.replies) >= 2
    /\ inv.replies[Len(inv.replies)].kind = "nochoices"
    /\ Len(inv.executed) >= 1
    /\ inv.result = ErrMsg(<<"no response from model">>)

-----------------------------------------------------------------------------
(* the agent loop: claim C21, checked under LoopSpec *)

\* a run_command or manage_window call whose payload does not unmarshal
MalformedOutOfBand(call) ==
  call.Name \in {"run_command", "manage_window"} /\ Malformed(call.Arguments)

\* C21: a run_command or manage_window call with a malformed payload neither
\* suspends nor fails the invocation: it is handed to ExecuteToolByName, it
\* gets exactly one tool message with its id, and the next call of the reply
\* is processed (executed, or suspended on if it is out-of-band); after a
\* reply whose calls were all executed the loop goes on.
C21_MalformedPayloadFallsThrough ==
  \A inv \in ai :
    \A k \in 1..Len(inv.replies) :
      WithCalls(inv.replies[k]) =>
        LET r == inv.replies[k]
            am == inv.messages[AssistantIdx(inv, k)]
        IN \A c \in 1..Len(r.calls) :
             (Reached(r, c) /\ MalformedOutOfBand(r.calls[c])) =>
               LET id == am.ToolCalls[c].ID
               IN /\ id \in Range(inv.executed)
                  /\ Cardinality(ToolMsgs(inv.messages, id)) = 1
                  /\ inv.result.ToolCallID /= id
                  /\ c < Len(r.calls) =>
                       IF OutOfBand(r.calls[c + 1])
                         THEN /\ inv.result.type \in {"RunCommandMsg", "WindowControlMsg"}
                              /\ inv.result.ToolCallID = am.ToolCalls[c + 1].ID
                         ELSE Cardinality(ToolMsgs(inv.messages,
                                                   am.ToolCalls[c + 1].ID)) = 1
                  /\ (SyncOnly(r) /\ k < MaxIterations /\ Len(inv.replies) = k)
                       => inv.result.type = "none"

\* a manage_window call with a malformed payload was executed and answered,
\* and the invocation then suspended on the run_command call after it
C21_Witness ==
  \E inv \in ai :
    /\ Len(inv.replies) = 1
    /\ inv.replies[1].calls = <<WindowMalformed, RunLs>>
    /\ Len(inv.executed) = 1
    /\ inv.result.type = "RunCommandMsg"
    /\ inv.messages[Len(inv.messages)].Role = RoleTool
    /\ inv.messages[Len(inv.messages)].Content[1] = "Error executing tool: "

-----------------------------------------------------------------------------
(* the session after one dispatch, with tags typed against other file lists *)

\* characters the input may hold when a key adds to it
MaxTyped == 3

MainGo == <<"m", "a", "i", "n", ".", "g", "o">>
ModelGo == <<"m", "o", "d", "e", "l", ".", "g", "o">>
StylesGo == <<"s", "t", "y", "l", "e", "s", ".", "g", "o">>

\* the file list of a project with three files
SourceFiles == <<MainGo, ModelGo, StylesGo>>

\* the file list of a project with twelve files, eleven of them with an "m"
\* in the path
ManyFiles ==
  << <<"m", "a">>, <<"a", "m">>, <<"m", "m">>, <<"x", "m">>, <<"m", "x">>,
     <<"a", "x">>, <<"m", "a", "a">>, <<"m", "a", "m">>, <<"m", "a", "x">>,
     <<"a", "m", "x">>, <<"x", "m", "a">>, <<"m", "x", "m">> >>

AutoFileLists == {SourceFiles, ManyFiles}

AutoInit ==
  /\ History = initialHistory \o <<FinalMsg(<<"hi">>),
                                    Plain(RoleUser, <<"f", "o", "o">>)>>
  /\ State = StateThinking
  /\ PendingQueue = <<>>
  /\ ShowSidebar = FALSE
  /\ ProcessOutput = <<>>
  /\ Input = <<>>
  /\ ShowAutocomplete = FALSE
  /\ AutocompleteIdx = 0
  /\ AutocompleteList = <<>>
  /\ quit = FALSE
  /\ providerModel = TRUE
  /\ Files \in AutoFileLists
  /\ fileContent = ProjectFile
  /\ editResult = NoEdit
  /\ ai = {NewInvocation(2, History)}
  /\ invStarted = 2
  /\ nextCallId = 1
  /\ aiComplete = 0
  /\ resize = 0
  /\ procs = {}
  /\ procStarted = 0
  /\ consumers = 0
  /\ outMsgs = <<>>
  /\ requests = 1
  /\ submits = 1

\* the keys typed one at a time
TypedKeys == {<<"@">>, <<"m">>, <<"a">>, <<" ">>, <<"x">>}

\* the rest of a path, pasted in one piece
PastedRest == <<"i", "n", ".", "g", "o">>

\* the texts pasted into the empty input: three tags of which the second is
\* no known path, and the same tag twice with two spaces between
PastedTexts ==
  { <<"@", "a", "m", " ", "@", "z", "z", " ", "@", "m", "a">>,
    <<"@", "m", "a", " ", " ", "@", "m", "a", " ", "x">> }

\* a key adds to the input
AutoType ==
  /\ submits < MaxSubmits
  /\ Len(Input) < MaxTyped
  /\ \E text \in TypedKeys : KeyRunes(text)

\* a paste adds to the input
AutoPaste ==
  /\ submits < MaxSubmits
  /\ \/ Len(Input) <= MaxTyped /\ KeyRunes(PastedRest)
     \/ Input = <<>> /\ \E text \in PastedTexts : KeyRunes(text)

AutoNext ==
  \/ KeyEsc
  \/ KeyUp
  \/ KeyDown
  \/ KeyTab
  \/ KeyEnter
  \/ KeyBackspace
  \/ AutoType
  \/ AutoPaste
  \/ Blink

AutoSpec == AutoInit /\ [][AutoNext]_vars

-----------------------------------------------------------------------------
(* autocomplete: claims C22, C23, checked under AutoSpec *)

\* the last whitespace-delimited token of a text, empty when it has none
LastToken(s) == LET w == Fields(s) IN IF w = <<>> THEN <<>> ELSE w[Len(w)]

\* the text after the "@" of the last token
Partial(s) == SubSeq(LastToken(s), 2, Len(LastToken(s)))

\* the last token is a tag that is no known path yet
PartialTag(s) ==
  /\ LastToken(s) /= <<>>
  /\ LastToken(s)[1] = "@"
  /\ \A i \in 1..Len(Files) : Files[i] /= Partial(s)

\* sub occurs in s as a run of consecutive characters
Occurs(sub, s) ==
  \E i \in 0..(Len(s) - Len(sub)) : \A j \in 1..Len(sub) : s[i + j] = sub[j]

\* the positions of the file list whose path holds p
Hits(p) == {i \in 1..Len(Files) : Occurs(p, Files[i])}

\* the k-th smallest element of a set of positions
Nth(I, k) == CHOOSE i \in I : Cardinality({j \in I : j < i}) = k - 1

\* the first paths of the file list that hold p, in its order, ten at most
FirstHits(p) ==
  LET n == IF Cardinality(Hits(p)) < 10 THEN Cardinality(Hits(p)) ELSE 10
  IN [k \in 1..n |-> Files[Nth(Hits(p), k)]]

\* C22: whenever the input ends in a partial tag @p, the candidate list is
\* the first paths of the file list, in its order, that hold p as a
\* substring (all paths when p is empty), ten at most; the list never has
\* more than ten entries
C22_CandidatesAreFirstTenMatches ==
  /\ Len(AutocompleteList) <= 10
  /\ PartialTag(Input) => AutocompleteList = FirstHits(Partial(Input))

C22_Witness ==
  /\ Files = ManyFiles
  /\ Input = <<"@", "m">>
  /\ ShowAutocomplete
  /\ Cardinality(Hits(<<"m">>)) = 11
  /\ Len(AutocompleteList) = 10
  /\ AutocompleteList[10] = <<"x", "m", "a">>

\* C23 (as the code has it): with the files main.go, model.go, styles.go and
\* the partial token "ma", the candidates are main.go alone
C23_OnlyMainGo ==
  (Files = SourceFiles /\ LastToken(Input) = <<"@", "m", "a">>)
    => AutocompleteList = <<MainGo>>

\* C23 (as stated): with the files main.go, model.go, styles.go and the
\* partial token "ma", the candidates are main.go and model.go, in that order
C23_MainGoAndModelGo ==
  (Files = SourceFiles /\ LastToken(Input) = <<"@", "m", "a">>)
    => AutocompleteList = <<MainGo, ModelGo>>

C23_Witness ==
  /\ Files = SourceFiles
  /\ Input = <<"@", "m", "a">>
  /\ ShowAutocomplete
  /\ AutocompleteList = <<MainGo>>

-----------------------------------------------------------------------------
(* tags: claim C24, checked under AutoSpec *)

\* a token that is "@" followed by a known path
KnownTag(w) ==
  /\ w /= <<>>
  /\ w[1] = "@"
  /\ \E i \in 1..Len(Files) : Files[i] = SubSeq(w, 2, Len(w))

\* no token of the text begins with "@"
NoTagToken(s) == \A k \in 1..Len(Fields(s)) : Fields(s)[k][1] /= "@"

\* the known paths tagged in a text, one per tag, in the order of the tags
MatchedPaths(s) ==
  LET tags == SelectSeq(Fields(s), KnownTag)
  IN [k \in 1..Len(tags) |-> SubSeq(tags[k], 2, Len(tags[k]))]

\* paths separated by ", "
RECURSIVE CommaList(_)
CommaList(paths) ==
  IF Len(paths) = 1 THEN paths[1]
  ELSE paths[1] \o <<",", " ">> \o CommaList(Tail(paths))

\* the hint that names the paths
Hint(paths) ==
  <<"\n", "\n", "[User has referenced these files: ">> \o CommaList(paths)
    \o <<". Use the read_file tool to view their contents.]">>

\* a non-empty input is submitted
SubmitsInput == KeyEnter /\ ~ShowAutocomplete /\ Input /= <<>>

\* C24: resolveFileTags returns an input without any @-token unchanged, and
\* is idempotent on it; an input with at least one @-token that is exactly a
\* known path is returned followed by one hint that lists the matched paths
\* in the order of their tokens, nothing else altered; @-tokens that match no
\* known path add nothing. A submission records the input so resolved.
C24_ResolveFileTags ==
  /\ [](/\ NoTagToken(Input) =>
             /\ resolveFileTags(Input) = Input
             /\ resolveFileTags(resolveFileTags(Input)) = resolveFileTags(Input)
        /\ MatchedPaths(Input) = <<>> => resolveFileTags(Input) = Input
        /\ MatchedPaths(Input) /= <<>> =>
             resolveFileTags(Input) = Input \o Hint(MatchedPaths(Input)))
  /\ [][SubmitsInput =>
          Last(History').Content =
            IF MatchedPaths(Input) = <<>> THEN Input
            ELSE Input \o Hint(MatchedPaths(Input))]_vars

\* the three tags were submitted with the twelve-file list: the hint names
\* am before ma, and not zz
C24_Witness ==
  /\ Files = ManyFiles
  /\ Len(PendingQueue) = 1
  /\ Last(History).Content =
       <<"@", "a", "m", " ", "@", "z", "z", " ", "@", "m", "a">>
         \o <<"\n", "\n", "[User has referenced these files: ",
              "a", "m", ",", " ", "m", "a",
              ". Use the read_file tool to view their contents.]">>
  /\ PendingQueue[1] = Last(History).Content

-----------------------------------------------------------------------------
(* autocomplete keys: claim C25, checked under AutoSpec *)

\* the tokens of a text with the last one replaced by tag
WithLastTokenReplaced(s, tag) ==
  [k \in 1..Len(Fields(s)) |-> IF k = Len(Fields(s)) THEN tag ELSE Fields(s)[k]]

\* the text ends with one space, and only one
EndsWithOneSpace(s) ==
  /\ Len(s) >= 2
  /\ s[Len(s)] = " "
  /\ s[Len(s) - 1] /= " "

\* the candidate under the selection
Selected == AutocompleteList[AutocompleteIdx + 1]

\* C25: with autocomplete active, Tab or Enter replaces the last of the
\* whitespace-delimited tokens of the input by "@" and the selected
\* candidate, the other tokens staying as they are and in their order, ends
\* the input with exactly one space, deactivates autocomplete and submits
\* nothing (history, queue, phase and invocations unchanged); Esc or Ctrl+C
\* then deactivates autocomplete, leaves the input as it is and does not
\* quit; with autocomplete inactive the same key quits.
C25_ConfirmAndCancel ==
  [][/\ ((KeyTab \/ KeyEnter) /\ ShowAutocomplete) =>
          /\ Fields(Input') = WithLastTokenReplaced(Input, <<"@">> \o Selected)
          /\ EndsWithOneSpace(Input')
          /\ ~ShowAutocomplete'
          /\ UNCHANGED <<History, PendingQueue, State, ai, submits>>
     /\ (KeyEsc /\ ShowAutocomplete) =>
          /\ ~ShowAutocomplete'
          /\ Input' = Input
          /\ ~quit'
     /\ (KeyEsc /\ ~ShowAutocomplete) => quit']_vars

\* "x @" was completed with the first candidate of the three-file list
C25_Witness ==
  /\ Files = SourceFiles
  /\ Input = <<"x", " ", "@">> \o MainGo \o <<" ">>
  /\ ~ShowAutocomplete
  /\ AutocompleteList = SourceFiles
  /\ ~quit

-----------------------------------------------------------------------------
(* autocomplete: claims C29, C30, checked under AutoSpec *)

\* C29: whenever autocomplete is active, the candidate list has between 1
\* and 10 entries and the selected index is at least 0 and below the number
\* of candidates, after any sequence of edits, Up and Down keys,
\* confirmations and cancellations.
C29_SelectionWithinCandidates ==
  ShowAutocomplete =>
    /\ 1 <= Len(AutocompleteList)
    /\ Len(AutocompleteList) <= 10
    /\ 0 <= AutocompleteIdx
    /\ AutocompleteIdx < Len(AutocompleteList)

\* the last of ten candidates is selected, and Down was pressed on it
C29_Witness ==
  /\ Files = ManyFiles
  /\ ShowAutocomplete
  /\ Len(AutocompleteList) = 10
  /\ AutocompleteIdx = 9

\* a key or a paste changes the text of the input
RawEdit == AutoType \/ AutoPaste \/ KeyBackspace

\* C30 (as the code has it): after every edit of the input, autocomplete is
\* active exactly when the last token begins with "@", the rest of it is not
\* exactly a known path, and at least one known path holds the rest as a
\* substring; it is inactive for an empty input, for a last token without
\* "@" and for a complete tag.
C30_ActiveIffPartialTagWithCandidates ==
  [][RawEdit =>
       /\ ShowAutocomplete' <=>
            (PartialTag(Input') /\ Hits(Partial(Input')) /= {})
       /\ Fields(Input') = <<>> => ~ShowAutocomplete'
       /\ (LastToken(Input') /= <<>> /\ LastToken(Input')[1] /= "@")
            => ~ShowAutocomplete'
       /\ KnownTag(LastToken(Input')) => ~ShowAutocomplete']_vars

\* C30 (as stated): after every edit of the input, autocomplete is active
\* exactly when the last token begins with "@" and the rest of it is not
\* exactly a known path.
C30_ActiveIffPartialTag ==
  [][RawEdit => (ShowAutocomplete' <=> PartialTag(Input'))]_vars

\* "@x" was typed with the three-file list: no path holds an x, and
\* autocomplete is not active
C30_Witness ==
  /\ Files = SourceFiles
  /\ Input = <<"@", "x">>
  /\ PartialTag(Input)
  /\ AutocompleteList = <<>>
  /\ ~ShowAutocomplete

-----------------------------------------------------------------------------
(* the edit_file tool on its own *)

\* characters the file may hold when it is edited
MaxContent == 3

\* the contents the file starts with
EditContents ==
  UNION {[1..n -> {"a", "b"}] : n \in 0..MaxContent}

\* the texts searched for and the texts put in their place
SearchTexts == {<<>>, <<"a">>, <<"a", "b">>, <<"b", "b">>}
ReplaceTexts == {<<>>, <<"b">>, <<"b", "a">>}

EditInit ==
  /\ History = initialHistory
  /\ State = StateThinking
  /\ PendingQueue = <<>>
  /\ ShowSidebar = FALSE
  /\ ProcessOutput = <<>>
  /\ Input = <<>>
  /\ ShowAutocomplete = FALSE
  /\ AutocompleteIdx = 0
  /\ AutocompleteList = <<>>
  /\ quit = FALSE
  /\ providerModel = TRUE
  /\ Files = ProjectFiles
  /\ fileContent \in EditContents
  /\ editResult = NoEdit
  /\ ai = {NewInvocation(1, History)}
  /\ invStarted = 1
  /\ nextCallId = 1
  /\ aiComplete = 0
  /\ resize = 0
  /\ procs = {}
  /\ procStarted = 0
  /\ consumers = 0
  /\ outMsgs = <<>>
  /\ requests = 0
  /\ submits = 0

\* one call of the edit_file tool
EditFileStep ==
  /\ Len(fileContent) <= MaxContent
  /\ \E path \in {FilePath, EnvPath, MissingPath} :
     \E searchText \in SearchTexts : \E replaceText \in ReplaceTexts :
     \E writable \in BOOLEAN :
       LET r == EditFile(path, searchText, replaceText, fileContent, writable)
       IN /\ fileContent' = r.content
          /\ editResult' = Edit(path, searchText, replaceText, r.out, r.err)
  /\ UNCHANGED <<modelVars, providerModel, Files, cmdVars, submits>>

EditNext == EditFileStep

EditSpec == EditInit /\ [][EditNext]_vars

-----------------------------------------------------------------------------
(* edit_file: claim C26, checked under EditSpec *)

\* sub is in s right after its first n characters
OccursAt(sub, s, n) ==
  /\ n + Len(sub) <= Len(s)
  /\ \A j \in 1..Len(sub) : s[n + j] = sub[j]

\* C26: a call of edit_file on the file fails with an error and leaves the
\* file as it was when the search text is not in the file; when it is in the
\* file, and the file can be written, the first occurrence of the search text
\* is replaced by the replacement, everything before and after it stays, and
\* the call returns the success text without an error.
C26_EditReplacesFirstOccurrence ==
  [][(EditFileStep /\ editResult'.Path = FilePath) =>
       LET e == editResult' IN
       IF ~Occurs(e.SearchText, fileContent)
         THEN /\ e.err /= <<>>
              /\ e.out = <<>>
              /\ fileContent' = fileContent
         ELSE \/ /\ e.err = <<"failed to write file: ", "permission denied">>
                 /\ fileContent' = fileContent
              \/ /\ e.err = <<>>
                 /\ e.out = <<"Successfully edited ", FilePath>>
                 /\ \E n \in 0..Len(fileContent) :
                      /\ OccursAt(e.SearchText, fileContent, n)
                      /\ \A k \in 0..(n - 1) :
                           ~OccursAt(e.SearchText, fileContent, k)
                      /\ fileContent' =
                           SubSeq(fileContent, 1, n) \o e.ReplaceText
                             \o SubSeq(fileContent, n + Len(e.SearchText) + 1,
                                       Len(fileContent))]_vars

\* "a" was replaced by "b" in a file that held "aab": the second "a" is still
\* there
C26_Witness ==
  /\ editResult = Edit(FilePath, <<"a">>, <<"b">>,
                       <<"Successfully edited ", FilePath>>, <<>>)
  /\ fileContent = <<"b", "a", "b">>

-----------------------------------------------------------------------------
(* the session: claim C27, checked under Spec *)

\* C27: PendingQueue is changed only by a submission while Thinking, which
\* appends one element at its tail, and by the completion event, which
\* removes its head; every other event leaves PendingQueue as it is.
C27_QueueChangedOnlyBySubmitAndComplete ==
  [][PendingQueue' /= PendingQueue =>
       \/ /\ SubmitsInput
          /\ State = StateThinking
          /\ PendingQueue' = Append(PendingQueue, resolveFileTags(Input))
       \/ /\ OnAiComplete
          /\ PendingQueue /= <<>>
          /\ PendingQueue' = Tail(PendingQueue)]_vars

\* the queue was filled and emptied again: "bar" was submitted while
\* Thinking, which recorded it in the history and queued it, and the
\* completion event took it from the queue and recorded it once more
C27_Witness ==
  /\ submits = 2
  /\ PendingQueue = <<>>
  /\ Cardinality({k \in 1..Len(History) :
                    History[k] = Plain(RoleUser, <<"b", "a", "r">>)}) = 2
  /\ Last(History) = Plain(RoleUser, <<"b", "a", "r">>)
  /\ State = StateThinking

-----------------------------------------------------------------------------
(* the process runs: claim C28, checked under ProcSpec *)

\* a sequence without its i-th element
Without(s, i) == SubSeq(s, 1, i - 1) \o SubSeq(s, i + 1, Len(s))

\* C28: handling a process line appends exactly that line to the output
\* buffer, whether or not the sidebar is shown, leaves the history, the
\* queue, the phase and the sidebar flag as they are, and starts exactly one
\* more consumer of the output channel.
C28_LineIsAppendedAndConsumerRearmed ==
  [][OnProcessOutput =>
       /\ \E i \in 1..Len(outMsgs) :
            /\ outMsgs' = Without(outMsgs, i)
            /\ ProcessOutput' = ProcessOutput \o <<outMsgs[i]>>
       /\ UNCHANGED <<History, PendingQueue, State, ShowSidebar>>
       /\ consumers' = consumers + 1]_vars

\* a line of the first run was handled while the sidebar was shown, and a
\* consumer waits for the next
C28_Witness ==
  /\ ShowSidebar
  /\ ProcessOutput = <<"a">>
  /\ outMsgs = <<>>
  /\ consumers >= 1
  /\ \E p \in procs : p.n = 1 /\ p.pc = "running"

-----------------------------------------------------------------------------
(* the session: claims C31, C32, C33, checked under Spec *)

\* C31: at most one invocation is in flight (started, its result not yet
\* handled) in every state, and none is in flight while a process run is
\* outstanding.
C31_OneInvocationInFlight ==
  /\ Cardinality(ai) <= 1
  /\ (\E p \in procs : Unfinished(p)) => ai = {}

\* C32: in every state in which the phase is Idle, PendingQueue is empty.
C32_IdleImpliesEmptyQueue ==
  State = StateIdle => PendingQueue = <<>>

\* the positions of a history that hold a user message with this content
UserMessages(history, content) ==
  {k \in 1..Len(history) : history[k] = Plain(RoleUser, content)}

\* the texts submitted so far, as the history records them
Submitted == {resolveFileTags(InputTexts[k]) : k \in 1..submits}

\* C33: each submitted message is in the session history as a user message at
\* most once, and so in every history an invocation started from; a message
\* that waits in PendingQueue is not in the history yet.
C33_SubmittedOnce ==
  /\ \A content \in Submitted :
       /\ Cardinality(UserMessages(History, content)) <= 1
       /\ \A inv \in ai :
            Cardinality(UserMessages(inv.messages, content)) <= 1
  /\ \A k \in 1..Len(PendingQueue) :
       UserMessages(History, PendingQueue[k]) = {}

-----------------------------------------------------------------------------
(* the session: claim C36, checked under Spec *)

\* the position of the first user or assistant message after position i, or
\* the position after the end of the history
NextTurn(history, i) ==
  LET later == {j \in (i + 1)..Len(history) :
                  history[j].Role \in {RoleUser, RoleAssistant}}
  IN IF later = {} THEN Len(history) + 1
     ELSE CHOOSE j \in later : \A k \in later : j <= k

\* every tool call of the assistant message at position i has exactly one
\* tool message with its id before the next user or assistant message
CallsAnswered(history, i) ==
  \A c \in 1..Len(history[i].ToolCalls) :
    Cardinality({j \in (i + 1)..(NextTurn(history, i) - 1) :
                   /\ history[j].Role = RoleTool
                   /\ history[j].ToolCallID = history[i].ToolCalls[c].ID}) = 1

WellFormed(history) ==
  \A i \in 1..Len(history) :
    history[i].Role = RoleAssistant => CallsAnswered(history, i)

\* C36: the messages of every request an invocation sends to the endpoint
\* are well formed: each assistant message with tool calls is followed,
\* before any later user or assistant message, by exactly one tool message
\* per tool call, with the id of the call.
C36_RequestsCarryWellFormedHistory ==
  \A inv \in ai : WellFormed(inv.sent)

-----------------------------------------------------------------------------
(* the process runs: claim C35, checked under ProcSpec *)

\* C35: the output buffer is empty in every state in which no process run is
\* outstanding (accepted, its completion event not yet handled): before the
\* first run, and from the handling of a run's completion event until the
\* next run is accepted.
C35_BufferEmptyWithoutRun ==
  (\A p \in procs : ~Unfinished(p)) => ProcessOutput = <<>>

-----------------------------------------------------------------------------
(* the session without tool calls, where every invocation delivers its *)
(* result and every result is handled                                  *)

\* an InvokeAI goroutine advances; the endpoint answers every request, with
\* a text or with an error
QueueAiStep ==
  /\ ~quit
  /\ \E inv \in ai : \E reply \in {Content(<<"hi">>), ApiError} :
       AiStep(inv, reply)

QueueNext ==
  \/ KeyEnter
  \/ Type
  \/ WindowSize
  \/ OnAiResult
  \/ OnAiComplete
  \/ QueueAiStep

\* every goroutine runs on, and the runtime hands every message a command
\* returned to Update; the user is under no obligation to type
QueueSpec ==
  /\ Init
  /\ [][QueueNext]_vars
  /\ WF_vars(QueueAiStep)
  /\ WF_vars(OnAiResult)
  /\ WF_vars(OnAiComplete)

-----------------------------------------------------------------------------
(* the queue: claim C34, checked under QueueSpec *)

\* the k-th submission waits in PendingQueue
Queued(k) ==
  \E i \in 1..Len(PendingQueue) : PendingQueue[i] = resolveFileTags(InputTexts[k])

\* C34: every message that is put in PendingQueue is taken from it later
\* (and with that dispatched to an invocation), whatever the user does or
\* does not do afterwards, when every invocation delivers its result and
\* every result is handled.
C34_QueuedEventuallyDispatched ==
  \A k \in 1..MaxSubmits : Queued(k) ~> ~Queued(k)

=============================================================================
